---- MODULE Spec2Model ----
(***************************************************************************)
(* GM-Voice-Studio: the voice identity store (voice_store.py, db_voice.py) *)
(* and the narration job pipeline (server.py, celery_app.py).              *)
(*                                                                         *)
(* The voice store is run under its four backend pairings side by side:    *)
(* every facade call is applied, with the same arguments and the same      *)
(* clock readings, to one store per pairing, so that a statement "for      *)
(* every backend pairing" is a quantification over Pairings and a          *)
(* statement "the same under each pairing" compares the four results.      *)
(***************************************************************************)
EXTENDS Integers, Sequences, FiniteSets, TLC

VARIABLES
    store,      \* [Pairings -> the persisted state of that deployment]
    now,        \* the wall clock read by time.time()
    last,       \* the last facade call: its arguments and, per pairing, its result
    seeded,     \* the stores held a voice when the process started
    faulted,    \* an I/O call has failed during some earlier facade call
    writes,     \* the number of save, update and delete calls made so far
    useQueue,   \* CELERY_BROKER_URL names a broker (not memory://): _use_clone_queue()
    tasks,      \* [Celery task id -> the message sent to the worker and its progress]
    backend,    \* the Celery result backend: [task id -> state and result]
    wavs,       \* the names f of the files NARRATE_RESULT_PATH/f.wav that exist
    nextUuid,   \* the next fresh uuid4
    lastJob,    \* the last job request of the API layer and its response
    AUDIO_CACHE_SIZE,   \* config.AUDIO_CACHE_SIZE of this process
    _audio_cache,       \* tts_service._audio_cache: the tracked paths, oldest first
    tmpFiles,           \* the files made by generate_to_file that exist on disk
    nextTmp,            \* the next fresh name tempfile.mkstemp gives
    inserted,           \* every path generate_to_file has returned, in order
    unlinkFailed,       \* an os.unlink of a cache file has raised OSError
    lastGen,            \* the outcome of the last generate_to_file call
    splitText,          \* split_for_tts: the text argument
    splitMode,          \* split_for_tts: the chunk_by argument
    splitMax,           \* split_for_tts: the max_chars argument
    splitChunks,        \* split_for_tts: the returned list
    returned,           \* split_for_tts has returned
    clones,             \* the number of clone_voice calls made so far
    lastClone,          \* the last clone_voice call: its inputs and, per pairing, its outcome
    req,                \* the body of a POST /tts/narrate request
    syncRes,            \* its outcome on the synchronous path
    asyncRes,           \* the response to it on the asynchronous path
    narrMsg,            \* the narrate_task message that response put on the queue
    workerRes,          \* the outcome of narrate_task for that message
    threads,            \* per thread inside generate_to_file: its position and its path
    popped,             \* the paths the threads' pop(0) calls returned, in order
    procs               \* per process inside a voice_store call: the call and its position

storeVars == <<store, now, last, seeded, faulted, writes>>
jobVars == <<useQueue, tasks, backend, wavs, nextUuid, lastJob>>
splitVars == <<splitText, splitMode, splitMax, splitChunks, returned>>
cacheVars == <<AUDIO_CACHE_SIZE, _audio_cache, tmpFiles, nextTmp, inserted, unlinkFailed, lastGen,
               threads, popped>>
vars == <<store, now, last, seeded, faulted, writes,
          useQueue, tasks, backend, wavs, nextUuid, lastJob,
          AUDIO_CACHE_SIZE, _audio_cache, tmpFiles, nextTmp, inserted, unlinkFailed, lastGen,
          splitText, splitMode, splitMax, splitChunks, returned,
          clones, lastClone,
          req, syncRes, asyncRes, narrMsg, workerRes, threads, popped, procs>>

\* what the operations of one component leave alone: the other components
cloneVars == <<clones, lastClone>>
narrateVars == <<req, syncRes, asyncRes, narrMsg, workerRes>>
procVars == <<procs>>
outsideStore == <<jobVars, cacheVars, splitVars, cloneVars, narrateVars, procVars>>
outsideJobs == <<storeVars, cacheVars, splitVars, cloneVars, narrateVars, procVars>>
outsideCache == <<storeVars, jobVars, splitVars, cloneVars, narrateVars, procVars>>
outsideSplit == <<storeVars, jobVars, cacheVars, cloneVars, narrateVars, procVars>>
outsideClone == <<jobVars, cacheVars, splitVars, narrateVars, procVars>>
outsideNarrate == <<storeVars, jobVars, cacheVars, splitVars, cloneVars, procVars>>
outsideProcs == <<now, last, seeded, faulted, writes, jobVars, cacheVars, splitVars, cloneVars,
                  narrateVars>>

(***************************************************************************)
(* Bounds and value domains                                                *)
(***************************************************************************)
MaxTime == 1                            \* the clock stops advancing at MaxTime
MaxWrites == 2                          \* save, update and delete calls in one run
MaxJobs == 2                            \* narration jobs enqueued in one run
MaxCapacity == 3                        \* the largest AUDIO_CACHE_SIZE configured
MaxInserts == 4                         \* generate_to_file calls that reach mkstemp
MaxClones == 2                          \* clone_voice calls in one run
MaxProcs == 2                           \* processes calling voice_store at the same time
MaxThreads == 2                         \* threads of one process inside generate_to_file
MaxCloneJobs == 1                       \* requests that draw a job id in one run of the clone jobs

VoiceIds == {"v1", "v2"}
OwnerIds == {"A", "B"}
NoOwner == "None"                       \* owner_id is None
NoName == <<"None">>                    \* name / faction is None
Names == {<<" ", "b">>}                 \* strings as sequences of characters
Factions == {<<"f">>}
Consents == {"tts"}
SeedEmbedding == [kind |-> "dict", ndim |-> 0, data |-> "e1"]
Embeddings == {[kind |-> "tensor", ndim |-> 1, data |-> "e2"]}

LocalFile == [blob |-> "local", meta |-> "file"]
LocalDb == [blob |-> "local", meta |-> "db"]
S3File == [blob |-> "s3", meta |-> "file"]
S3Db == [blob |-> "s3", meta |-> "db"]
Pairings == {LocalFile, LocalDb, S3File, S3Db}

(***************************************************************************)
(* Python helpers                                                          *)
(***************************************************************************)
RECURSIVE LStrip(_)
LStrip(s) == IF s # <<>> /\ Head(s) = " " THEN LStrip(Tail(s)) ELSE s

RECURSIVE RStrip(_)
RStrip(s) == IF s # <<>> /\ s[Len(s)] = " " THEN RStrip(SubSeq(s, 1, Len(s) - 1)) ELSE s

\* (x or "").strip()
StripOrEmpty(x) == IF x = NoName THEN <<>> ELSE RStrip(LStrip(x))

Min(a, b) == IF a <= b THEN a ELSE b
Max(a, b) == IF a >= b THEN a ELSE b

\* min() and max() of a non-empty set of integers
MinOf(S) == CHOOSE x \in S : \A y \in S : x <= y
MaxOf(S) == LET R == {0 - x : x \in S} IN 0 - MinOf(R)

\* str.strip(), str.lstrip(), str.rstrip() on a text held as a sequence of characters
Whitespace == {" ", "\n"}

RECURSIVE lstrip(_)
lstrip(s) == IF s # <<>> /\ s[1] \in Whitespace THEN lstrip(SubSeq(s, 2, Len(s))) ELSE s

RECURSIVE rstrip(_)
rstrip(s) == IF s # <<>> /\ s[Len(s)] \in Whitespace THEN rstrip(SubSeq(s, 1, Len(s) - 1)) ELSE s

strip(s) == rstrip(lstrip(s))

\* s[:k] taken as the whole of s
SliceAll(s, k) == s

\* s[:k] and s[k:], with Python's reading of a negative or too large k
Slice(s, k) == IF k >= 0 THEN SubSeq(s, 1, Min(k, Len(s))) ELSE SubSeq(s, 1, Max(Len(s) + k, 0))
SliceFrom(s, k) == IF k >= 0 THEN SubSeq(s, k + 1, Len(s)) ELSE SubSeq(s, Max(Len(s) + k, 0) + 1, Len(s))

\* s.rfind(ch): the 0-based index of the last ch in s, -1 when there is none
rfind(s, ch) ==
    LET S == {i \in 1..Len(s) : s[i] = ch}
    IN IF S = {} THEN 0 - 1 ELSE MaxOf(S) - 1

\* text.split("\n\n"), scanning the text from the 1-based position from; nn holds
\* the positions where "\n\n" starts
RECURSIVE SplitParagraphsFrom(_, _, _)
SplitParagraphsFrom(text, nn, from) ==
    LET S == {i \in nn : i >= from}
    IN IF S = {} THEN <<SubSeq(text, from, Len(text))>>
       ELSE <<SubSeq(text, from, MinOf(S) - 1)>> \o SplitParagraphsFrom(text, nn, MinOf(S) + 2)

SplitParagraphs(text) ==
    SplitParagraphsFrom(text,
                        {i \in 1..(Len(text) - 1) : text[i] = "\n" /\ text[i + 1] = "\n"}, 1)

\* re.split(r'(?<=[.!?])\s+', text): cuts at each maximal run of whitespace that
\* follows one of . ! ?; seps holds the positions where such a run starts, nonws
\* the positions of the other characters
SentenceEnders == {".", "!", "?"}

RECURSIVE SplitSentencesFrom(_, _, _, _)
SplitSentencesFrom(text, seps, nonws, from) ==
    LET S == {i \in seps : i >= from}
    IN IF S = {} THEN <<SubSeq(text, from, Len(text))>>
       ELSE LET sep == MinOf(S)
                rest == {i \in nonws : i > sep}
            IN IF rest = {} THEN <<SubSeq(text, from, sep - 1), <<>>>>
               ELSE <<SubSeq(text, from, sep - 1)>>
                        \o SplitSentencesFrom(text, seps, nonws, MinOf(rest))

SplitSentences(text) ==
    IF text = <<>> THEN << <<>> >>
    ELSE SplitSentencesFrom(text,
             {i \in 2..Len(text) : text[i] \in Whitespace /\ text[i - 1] \in SentenceEnders},
             {i \in 1..Len(text) : text[i] \notin Whitespace}, 1)

\* dict[k] = v and del dict[k] on a mapping held as a function
Put(f, k, v) == [x \in (DOMAIN f) \cup {k} |-> IF x = k THEN v ELSE f[x]]
Del(f, k) == [x \in (DOMAIN f) \ {k} |-> f[x]]

\* list.sort(key=lambda x: x["created_at"], reverse=True): stable, newest first
RECURSIVE InsertDesc(_, _)
InsertDesc(sorted, e) ==
    IF sorted = <<>> THEN <<e>>
    ELSE IF Head(sorted).created_at >= e.created_at
         THEN <<Head(sorted)>> \o InsertDesc(Tail(sorted), e)
         ELSE <<e>> \o sorted

RECURSIVE SortDesc(_)
SortDesc(seq) ==
    IF seq = <<>> THEN <<>>
    ELSE InsertDesc(SortDesc(SubSeq(seq, 1, Len(seq) - 1)), seq[Len(seq)])

IsSortedDesc(seq) ==
    \A i \in 1..(Len(seq) - 1) : seq[i].created_at >= seq[i + 1].created_at

\* every order in which a directory scan or an unordered SELECT can yield S
RECURSIVE Orders(_)
Orders(S) ==
    IF S = {} THEN {<<>>}
    ELSE UNION {{<<x>> \o t : t \in Orders(S \ {x})} : x \in S}

SeqFilter(seq, Keep(_)) ==
    LET F[i \in 0..Len(seq)] ==
            IF i = 0 THEN <<>>
            ELSE IF Keep(seq[i]) THEN Append(F[i - 1], seq[i]) ELSE F[i - 1]
    IN F[Len(seq)]

(***************************************************************************)
(* voice_store.py: backend selection                                       *)
(***************************************************************************)
_use_s3(p) == p.blob = "s3"

use_db(p) == p.meta = "db"

EmptyStore == [pt |-> <<>>, meta |-> <<>>, hasIndex |-> FALSE, index |-> <<>>, db |-> <<>>]

\* embedding.cpu(), and unsqueeze(0) of a 1-D tensor
EmbToSave(emb) ==
    IF emb.kind = "tensor" /\ emb.ndim = 1 THEN [emb EXCEPT !.ndim = 2] ELSE emb

MetaDict(voice_id, consent_scope, name, faction, t) ==
    [voice_id |-> voice_id, consent_scope |-> consent_scope, created_at |-> t,
     name |-> StripOrEmpty(name), faction |-> StripOrEmpty(faction)]

(***************************************************************************)
(* voice_store.py: local backend                                           *)
(***************************************************************************)
\* fault = "meta": meta.write_text raises OSError after torch.save succeeded
_local_save_embedding(s, voice_id, emb, consent_scope, name, faction, t, fault) ==
    LET s1 == [s EXCEPT !.pt = Put(s.pt, voice_id, EmbToSave(emb))]
    IN IF fault = "meta" THEN [s |-> s1, ret |-> "OSError"]
       ELSE [s |-> [s1 EXCEPT !.meta = Put(s1.meta, voice_id,
                        MetaDict(voice_id, consent_scope, name, faction, t))],
             ret |-> "ok"]

_local_load_embedding_path(s, voice_id) ==
    IF voice_id \in DOMAIN s.pt THEN <<s.pt[voice_id]>> ELSE <<>>

_local_get_metadata(s, voice_id) ==
    IF voice_id \in DOMAIN s.meta THEN <<s.meta[voice_id]>> ELSE <<>>

ListEntry(data) ==
    [voice_id |-> data.voice_id, name |-> data.name, created_at |-> data.created_at,
     consent_scope |-> data.consent_scope, faction |-> data.faction]

\* the results base.glob("*.json") + stable sort can give: glob order is arbitrary
_local_list_voices(s) ==
    {SortDesc([i \in 1..Len(o) |-> ListEntry(s.meta[o[i]])]) : o \in Orders(DOMAIN s.meta)}

\* _local_update_metadata stamping the record anew as it rewrites it
_local_update_metadata_restamped(s, voice_id, name) ==
    IF voice_id \notin DOMAIN s.meta THEN [s |-> s, ret |-> FALSE]
    ELSE LET data == s.meta[voice_id]
             data1 == IF name # NoName THEN [data EXCEPT !.name = StripOrEmpty(name)] ELSE data
             data2 == [data1 EXCEPT !.created_at = data.created_at + 1]
         IN [s |-> [s EXCEPT !.meta = Put(s.meta, voice_id, data2)], ret |-> TRUE]

_local_update_metadata(s, voice_id, name) ==
    IF voice_id \notin DOMAIN s.meta THEN [s |-> s, ret |-> FALSE]
    ELSE LET data == s.meta[voice_id]
             data1 == IF name # NoName THEN [data EXCEPT !.name = StripOrEmpty(name)] ELSE data
         IN [s |-> [s EXCEPT !.meta = Put(s.meta, voice_id, data1)], ret |-> TRUE]

\* fault = "pt" / "meta": that unlink raises OSError, which is logged and swallowed
_local_delete_voice(s, voice_id, fault) ==
    LET ptGone == voice_id \in DOMAIN s.pt /\ fault # "pt"
        metaGone == voice_id \in DOMAIN s.meta /\ fault # "meta"
        s1 == IF ptGone THEN [s EXCEPT !.pt = Del(s.pt, voice_id)] ELSE s
        s2 == IF metaGone THEN [s1 EXCEPT !.meta = Del(s1.meta, voice_id)] ELSE s1
    IN [s |-> s2, ret |-> ptGone \/ metaGone]

(***************************************************************************)
(* voice_store.py: S3 backend (blob key, metadata key, index object)       *)
(***************************************************************************)
\* index_by_id = {e["voice_id"]: e for e in index}; index_by_id[voice_id] = meta;
\* list(index_by_id.values()): an entry of that voice_id is replaced where it
\* stands, a new one goes last
IndexUpsert(index, voice_id, meta) ==
    IF \E i \in 1..Len(index) : index[i].voice_id = voice_id
    THEN [i \in 1..Len(index) |-> IF index[i].voice_id = voice_id THEN meta ELSE index[i]]
    ELSE Append(index, meta)

\* _s3_save_embedding writing the index back in dict order, without the sort
_s3_save_embedding_unsorted(s, voice_id, emb, consent_scope, name, faction, t, fault) ==
    LET meta == MetaDict(voice_id, consent_scope, name, faction, t)
        s1 == [s EXCEPT !.pt = Put(s.pt, voice_id, EmbToSave(emb))]
        s2 == [s1 EXCEPT !.meta = Put(s1.meta, voice_id, meta)]
        index == IF s.hasIndex THEN s.index ELSE <<>>
    IN IF fault = "meta" THEN [s |-> s1, ret |-> "OSError"]
       ELSE [s |-> [s2 EXCEPT !.hasIndex = TRUE,
                              !.index = IndexUpsert(index, voice_id, meta)],
             ret |-> "ok"]

\* fault = "meta": put_object of the metadata key raises after the blob was put
_s3_save_embedding(s, voice_id, emb, consent_scope, name, faction, t, fault) ==
    LET meta == MetaDict(voice_id, consent_scope, name, faction, t)
        s1 == [s EXCEPT !.pt = Put(s.pt, voice_id, EmbToSave(emb))]
        s2 == [s1 EXCEPT !.meta = Put(s1.meta, voice_id, meta)]
        index == IF s.hasIndex THEN s.index ELSE <<>>
    IN IF fault = "meta" THEN [s |-> s1, ret |-> "OSError"]
       ELSE [s |-> [s2 EXCEPT !.hasIndex = TRUE,
                              !.index = SortDesc(IndexUpsert(index, voice_id, meta))],
             ret |-> "ok"]

_s3_load_embedding_path(s, voice_id) ==
    IF voice_id \in DOMAIN s.pt THEN <<s.pt[voice_id]>> ELSE <<>>

_s3_get_metadata(s, voice_id) ==
    IF voice_id \in DOMAIN s.meta THEN <<s.meta[voice_id]>> ELSE <<>>

\* the index object as it is stored, or [] on NoSuchKey
_s3_list_voices(s) == {IF s.hasIndex THEN s.index ELSE <<>>}

_s3_update_metadata(s, voice_id, name) ==
    IF _s3_get_metadata(s, voice_id) = <<>> THEN [s |-> s, ret |-> FALSE]
    ELSE LET meta0 == s.meta[voice_id]
             meta == IF name # NoName THEN [meta0 EXCEPT !.name = StripOrEmpty(name)] ELSE meta0
             s1 == [s EXCEPT !.meta = Put(s.meta, voice_id, meta)]
             \* only the first entry of that voice_id is replaced (break)
             first == CHOOSE i \in 1..Len(s.index) :
                          /\ s.index[i].voice_id = voice_id
                          /\ \A j \in 1..(i - 1) : s.index[j].voice_id # voice_id
         IN IF ~s.hasIndex THEN [s |-> s1, ret |-> TRUE]
            ELSE IF \E i \in 1..Len(s.index) : s.index[i].voice_id = voice_id
                 THEN [s |-> [s1 EXCEPT !.index = [s.index EXCEPT ![first] = meta]], ret |-> TRUE]
                 ELSE [s |-> s1, ret |-> TRUE]

\* delete_object succeeds whether or not the key exists; fault = "pt" / "meta":
\* that delete_object raises, which is logged and swallowed
_s3_delete_voice(s, voice_id, fault) ==
    LET s1 == IF fault # "pt" THEN [s EXCEPT !.pt = Del(s.pt, voice_id)] ELSE s
        s2 == IF fault # "meta" THEN [s1 EXCEPT !.meta = Del(s1.meta, voice_id)] ELSE s1
        KeepOther(e) == e.voice_id # voice_id
        s3 == IF s2.hasIndex THEN [s2 EXCEPT !.index = SeqFilter(s2.index, KeepOther)] ELSE s2
    IN [s |-> s3, ret |-> (fault # "pt") \/ (fault # "meta")]

(***************************************************************************)
(* db_voice.py: the voices table                                           *)
(***************************************************************************)
\* the parameters db_insert_voice declares
db_insert_voice_params == {"voice_id", "name", "consent_scope", "created_at", "owner_id"}

db_insert_voice(db, voice_id, name, consent_scope, created_at, owner_id) ==
    Put(db, voice_id,
        [voice_id |-> voice_id, name |-> name,
         consent_scope |-> IF consent_scope = "" THEN "tts" ELSE consent_scope,
         created_at |-> created_at, owner_id |-> owner_id])

RowDict(r) ==
    [voice_id |-> r.voice_id, name |-> r.name,
     consent_scope |-> IF r.consent_scope = "" THEN "tts" ELSE r.consent_scope,
     created_at |-> r.created_at]

\* db_get_voice without its owner check
db_get_voice_any_owner(db, voice_id, owner_id) ==
    IF voice_id \notin DOMAIN db THEN <<>> ELSE <<RowDict(db[voice_id])>>

db_get_voice(db, voice_id, owner_id) ==
    IF voice_id \notin DOMAIN db THEN <<>>
    ELSE LET row_owner == db[voice_id].owner_id
         IN IF owner_id # NoOwner /\ row_owner # NoOwner /\ row_owner # owner_id
            THEN <<>>
            ELSE <<RowDict(db[voice_id])>>

\* WHERE owner_id = ? when an owner is given; ORDER BY created_at DESC leaves the
\* order of equal timestamps open
db_list_voices(db, owner_id) ==
    LET rows == IF owner_id = NoOwner THEN DOMAIN db
                ELSE {v \in DOMAIN db : db[v].owner_id = owner_id}
    IN {r \in {[i \in 1..Len(o) |-> RowDict(db[o[i]])] : o \in Orders(rows)} : IsSortedDesc(r)}

\* the rows an UPDATE / DELETE with this WHERE clause matches
DbMatch(db, voice_id, owner_id) ==
    /\ voice_id \in DOMAIN db
    /\ owner_id # NoOwner => (db[voice_id].owner_id = NoOwner \/ db[voice_id].owner_id = owner_id)

db_update_voice(db, voice_id, name, owner_id) ==
    IF name = NoName THEN [db |-> db, ret |-> TRUE]
    ELSE IF DbMatch(db, voice_id, owner_id)
         THEN [db |-> [db EXCEPT ![voice_id].name = StripOrEmpty(name)], ret |-> TRUE]
         ELSE [db |-> db, ret |-> FALSE]

\* db_delete_voice reporting the rows matched without deleting them
db_delete_voice_keeps_row(db, voice_id, owner_id) ==
    [db |-> db, ret |-> DbMatch(db, voice_id, owner_id)]

db_delete_voice(db, voice_id, owner_id) ==
    IF DbMatch(db, voice_id, owner_id)
    THEN [db |-> Del(db, voice_id), ret |-> TRUE]
    ELSE [db |-> db, ret |-> FALSE]

(***************************************************************************)
(* voice_store.py: the facade                                              *)
(***************************************************************************)
\* the arguments save_embedding passes to db_insert_voice (four positional,
\* owner_id= and faction= by keyword)
save_embedding_db_args == {"voice_id", "name", "consent_scope", "created_at", "owner_id", "faction"}

\* t1: time.time() read by save_embedding; t2: time.time() read by the backend
save_embedding(p, s, voice_id, emb, consent_scope, name, owner_id, faction, t1, t2, fault) ==
    LET r == IF _use_s3(p)
             THEN _s3_save_embedding(s, voice_id, emb, consent_scope, name, faction, t2, fault)
             ELSE _local_save_embedding(s, voice_id, emb, consent_scope, name, faction, t2, fault)
    IN IF r.ret # "ok" \/ ~use_db(p) THEN r
       ELSE IF save_embedding_db_args \subseteq db_insert_voice_params
            THEN [s |-> [r.s EXCEPT !.db = db_insert_voice(r.s.db, voice_id, StripOrEmpty(name),
                                                           consent_scope, t1, owner_id)],
                  ret |-> "ok"]
            ELSE [s |-> r.s, ret |-> "TypeError"]

load_embedding_path(p, s, voice_id) ==
    IF _use_s3(p) THEN _s3_load_embedding_path(s, voice_id)
    ELSE _local_load_embedding_path(s, voice_id)

get_metadata(p, s, voice_id, owner_id) ==
    IF use_db(p) THEN db_get_voice(s.db, voice_id, owner_id)
    ELSE IF _use_s3(p) THEN _s3_get_metadata(s, voice_id)
    ELSE _local_get_metadata(s, voice_id)

\* the set of results the call can return
list_voices(p, s, owner_id) ==
    IF use_db(p) THEN db_list_voices(s.db, owner_id)
    ELSE IF _use_s3(p) THEN _s3_list_voices(s)
    ELSE _local_list_voices(s)

update_metadata(p, s, voice_id, name, owner_id) ==
    IF use_db(p)
    THEN LET r == db_update_voice(s.db, voice_id, name, owner_id)
         IN [s |-> [s EXCEPT !.db = r.db], ret |-> r.ret]
    ELSE IF _use_s3(p) THEN _s3_update_metadata(s, voice_id, name)
    ELSE _local_update_metadata(s, voice_id, name)

delete_voice(p, s, voice_id, owner_id, fault) ==
    IF use_db(p) /\ owner_id # NoOwner /\ db_get_voice(s.db, voice_id, owner_id) = <<>>
    THEN [s |-> s, ret |-> FALSE]
    ELSE LET r == IF _use_s3(p) THEN _s3_delete_voice(s, voice_id, fault)
                  ELSE _local_delete_voice(s, voice_id, fault)
             d == db_delete_voice(r.s.db, voice_id, owner_id)
         IN IF use_db(p) THEN [s |-> [r.s EXCEPT !.db = d.db], ret |-> d.ret \/ r.ret]
            ELSE r

(***************************************************************************)
(* The store a process starts against                                      *)
(***************************************************************************)
\* The storage location is persistent and shared: the directory is opened with
\* exist_ok and the table with CREATE TABLE IF NOT EXISTS plus the owner_id
\* migration, so a process may start against a store that already holds a voice:
\* its blob, its metadata and, in the relational pairings, its row with an owner
\* or with the NULL owner of a legacy row.
SeededStore(p, owner_id) ==
    LET e == SeedEmbedding
        r == IF _use_s3(p)
             THEN _s3_save_embedding(EmptyStore, "v1", e, "tts", <<"a">>, NoName, 0, "none")
             ELSE _local_save_embedding(EmptyStore, "v1", e, "tts", <<"a">>, NoName, 0, "none")
    IN IF use_db(p)
       THEN [r.s EXCEPT !.db = db_insert_voice(r.s.db, "v1", <<"a">>, "tts", 0, owner_id)]
       ELSE r.s

NoCall == [op |-> "none", voice_id |-> "v1", owner_id |-> NoOwner, name |-> NoName,
           emb |-> <<>>, fault |-> "none", res |-> [p \in Pairings |-> <<>>]]

Call(op, voice_id, owner_id, name, emb, fault, res) ==
    [op |-> op, voice_id |-> voice_id, owner_id |-> owner_id, name |-> name,
     emb |-> emb, fault |-> fault, res |-> res]

StoreInit ==
    /\ now = 0
    /\ writes = 0
    /\ last = NoCall
    /\ faulted = FALSE
    /\ \/ /\ store = [p \in Pairings |-> EmptyStore]
          /\ seeded = FALSE
       \/ /\ \E o \in OwnerIds \cup {NoOwner} : store = [p \in Pairings |-> SeededStore(p, o)]
          /\ seeded = TRUE

Save ==
    \E v \in VoiceIds, e \in Embeddings, c \in Consents, n \in Names \cup {NoName},
       o \in OwnerIds \cup {NoOwner}, f \in Factions, fault \in {"none", "meta"} :
        /\ writes < MaxWrites
        /\ writes' = writes + 1
        /\ LET r == [p \in Pairings |->
                        save_embedding(p, store[p], v, e, c, n, o, f, now, now, fault)]
           IN /\ store' = [p \in Pairings |-> r[p].s]
              /\ last' = Call("save", v, NoOwner, n, <<e>>, fault, [p \in Pairings |-> r[p].ret])
        /\ faulted' = (faulted \/ fault # "none")
        /\ UNCHANGED <<now, seeded, outsideStore>>

LoadBlob ==
    \E v \in VoiceIds :
        /\ last' = Call("load", v, NoOwner, NoName, <<>>, "none",
                        [p \in Pairings |-> load_embedding_path(p, store[p], v)])
        /\ UNCHANGED <<store, now, seeded, faulted, writes, outsideStore>>

Get ==
    \E v \in VoiceIds, o \in OwnerIds \cup {NoOwner} :
        /\ last' = Call("get", v, o, NoName, <<>>, "none",
                        [p \in Pairings |-> get_metadata(p, store[p], v, o)])
        /\ UNCHANGED <<store, now, seeded, faulted, writes, outsideStore>>

List ==
    \E o \in OwnerIds \cup {NoOwner} :
      \E r1 \in list_voices(LocalFile, store[LocalFile], o),
         r2 \in list_voices(LocalDb, store[LocalDb], o),
         r3 \in list_voices(S3File, store[S3File], o),
         r4 \in list_voices(S3Db, store[S3Db], o) :
        /\ last' = Call("list", "v1", o, NoName, <<>>, "none",
                        [p \in Pairings |-> IF p = LocalFile THEN r1
                                            ELSE IF p = LocalDb THEN r2
                                            ELSE IF p = S3File THEN r3 ELSE r4])
        /\ UNCHANGED <<store, now, seeded, faulted, writes, outsideStore>>

Update ==
    \E v \in VoiceIds, n \in Names \cup {NoName}, o \in OwnerIds \cup {NoOwner} :
        LET r == [p \in Pairings |-> update_metadata(p, store[p], v, n, o)]
        IN /\ writes < MaxWrites
           /\ writes' = writes + 1
           /\ store' = [p \in Pairings |-> r[p].s]
           /\ last' = Call("update", v, o, n, <<>>, "none", [p \in Pairings |-> r[p].ret])
           /\ UNCHANGED <<now, seeded, faulted, outsideStore>>

Delete ==
    \E v \in VoiceIds, o \in OwnerIds \cup {NoOwner}, fault \in {"none", "pt", "meta"} :
        LET r == [p \in Pairings |-> delete_voice(p, store[p], v, o, fault)]
        IN /\ writes < MaxWrites
           /\ writes' = writes + 1
           /\ store' = [p \in Pairings |-> r[p].s]
           /\ last' = Call("delete", v, o, NoName, <<>>, fault, [p \in Pairings |-> r[p].ret])
           /\ faulted' = (faulted \/ fault # "none")
           /\ UNCHANGED <<now, seeded, outsideStore>>

\* time passes between two calls
Tick ==
    /\ now < MaxTime
    /\ now' = now + 1
    /\ UNCHANGED <<store, last, seeded, faulted, writes, outsideStore>>

StoreNext == Tick \/ Save \/ LoadBlob \/ Get \/ List \/ Update \/ Delete

(***************************************************************************)
(* voice_store.py: the flat-file backends call by call, in processes       *)
(***************************************************************************)
Procs == 1..MaxProcs

\* the name process i passes
ProcName(i) == IF i = 1 THEN <<" ", "b">> ELSE <<"c">>

\* a process not inside a call; data and index are the call's local variables
NoProc == [op |-> "none", pc |-> "idle", p |-> LocalFile, voice_id |-> "v1", name |-> NoName,
           data |-> <<>>, index |-> <<>>, ret |-> ""]

\* the storage layout is configured once for the deployment
SameBackend(p) == \A i \in Procs : procs[i].op # "none" => procs[i].p = p

InCall(i, op, p) == procs[i].op = op /\ procs[i].p = p /\ procs[i].pc \notin {"idle", "done"}

Step(i, pc, data, index) ==
    procs' = [procs EXCEPT ![i].pc = pc, ![i].data = data, ![i].index = index]

Return(i, ret) == procs' = [procs EXCEPT ![i].pc = "done", ![i].ret = ret]

\* a process enters save_embedding, update_metadata or delete_voice, once
ProcCall(i) ==
    \E op \in {"save", "update", "delete"}, p \in {LocalFile, S3File}, v \in VoiceIds :
        /\ procs[i].op = "none"
        /\ SameBackend(p)
        /\ procs' = [procs EXCEPT ![i] = [op |-> op, pc |-> "enter", p |-> p, voice_id |-> v,
                                          name |-> ProcName(i), data |-> <<>>,
                                          index |-> <<>>, ret |-> ""]]
        /\ UNCHANGED <<store, outsideProcs>>

\* _local_save_embedding: torch.save, then meta.write_text
LocalSaveStep(i) ==
    LET pr == procs[i]
        s == store[LocalFile]
    IN /\ InCall(i, "save", LocalFile)
       /\ IF pr.pc = "enter"
          THEN /\ store' = [store EXCEPT ![LocalFile].pt =
                                Put(s.pt, pr.voice_id, EmbToSave(SeedEmbedding))]
               /\ Step(i, "meta", <<>>, <<>>)
          ELSE /\ store' = [store EXCEPT ![LocalFile].meta =
                                Put(s.meta, pr.voice_id,
                                    MetaDict(pr.voice_id, "tts", pr.name, NoName, now))]
               /\ Return(i, "ok")
       /\ UNCHANGED outsideProcs

\* _local_update_metadata: m.exists(), m.read_text(), m.write_text()
LocalUpdateStep(i) ==
    LET pr == procs[i]
        s == store[LocalFile]
    IN /\ InCall(i, "update", LocalFile)
       /\ IF pr.pc = "enter"
          THEN /\ IF pr.voice_id \in DOMAIN s.meta
                  THEN Step(i, "read", <<>>, <<>>)
                  ELSE Return(i, "False")
               /\ UNCHANGED store
          ELSE IF pr.pc = "read"
          THEN /\ IF pr.voice_id \in DOMAIN s.meta
                  THEN Step(i, "write",
                            <<[s.meta[pr.voice_id] EXCEPT !.name = StripOrEmpty(pr.name)]>>, <<>>)
                  ELSE Return(i, "FileNotFoundError")
               /\ UNCHANGED store
          ELSE /\ store' = [store EXCEPT ![LocalFile].meta = Put(s.meta, pr.voice_id, pr.data[1])]
               /\ Return(i, "True")
       /\ UNCHANGED outsideProcs

\* _local_delete_voice: exists() and unlink() of the blob, then of the sidecar;
\* a file gone between the two calls gives the OSError the code swallows
LocalDeleteStep(i) ==
    LET pr == procs[i]
        s == store[LocalFile]
    IN /\ InCall(i, "delete", LocalFile)
       /\ IF pr.pc = "enter"
          THEN /\ store' = [store EXCEPT ![LocalFile].pt = Del(s.pt, pr.voice_id)]
               /\ procs' = [procs EXCEPT ![i].pc = "meta",
                                         ![i].ret = IF pr.voice_id \in DOMAIN s.pt
                                                    THEN "True" ELSE "False"]
          ELSE /\ store' = [store EXCEPT ![LocalFile].meta = Del(s.meta, pr.voice_id)]
               /\ Return(i, IF pr.voice_id \in DOMAIN s.meta THEN "True" ELSE pr.ret)
       /\ UNCHANGED outsideProcs

\* _s3_save_embedding: put the blob, put the metadata, get the index, put it
S3SaveStep(i) ==
    LET pr == procs[i]
        s == store[S3File]
        meta == MetaDict(pr.voice_id, "tts", pr.name, NoName, now)
    IN /\ InCall(i, "save", S3File)
       /\ IF pr.pc = "enter"
          THEN /\ store' = [store EXCEPT ![S3File].pt =
                                Put(s.pt, pr.voice_id, EmbToSave(SeedEmbedding))]
               /\ Step(i, "meta", <<>>, <<>>)
          ELSE IF pr.pc = "meta"
          THEN /\ store' = [store EXCEPT ![S3File].meta = Put(s.meta, pr.voice_id, meta)]
               /\ Step(i, "get_index", <<meta>>, <<>>)
          ELSE IF pr.pc = "get_index"
          THEN /\ Step(i, "put_index", pr.data, IF s.hasIndex THEN s.index ELSE <<>>)
               /\ UNCHANGED store
          ELSE /\ store' = [store EXCEPT
                                ![S3File].hasIndex = TRUE,
                                ![S3File].index =
                                    SortDesc(IndexUpsert(pr.index, pr.voice_id, pr.data[1]))]
               /\ Return(i, "ok")
       /\ UNCHANGED outsideProcs

\* the index with its first entry of voice_id replaced by meta
IndexReplaceFirst(index, voice_id, meta) ==
    LET at == {i \in 1..Len(index) : index[i].voice_id = voice_id}
    IN IF at = {} THEN index ELSE [index EXCEPT ![MinOf(at)] = meta]

\* _s3_update_metadata: get the metadata, put it, get the index, put it
S3UpdateStep(i) ==
    LET pr == procs[i]
        s == store[S3File]
    IN /\ InCall(i, "update", S3File)
       /\ IF pr.pc = "enter"
          THEN /\ IF pr.voice_id \in DOMAIN s.meta
                  THEN Step(i, "meta",
                            <<[s.meta[pr.voice_id] EXCEPT !.name = StripOrEmpty(pr.name)]>>, <<>>)
                  ELSE Return(i, "False")
               /\ UNCHANGED store
          ELSE IF pr.pc = "meta"
          THEN /\ store' = [store EXCEPT ![S3File].meta = Put(s.meta, pr.voice_id, pr.data[1])]
               /\ Step(i, "get_index", pr.data, <<>>)
          ELSE IF pr.pc = "get_index"
          THEN /\ IF s.hasIndex
                  THEN Step(i, "put_index", pr.data, s.index)
                  ELSE Return(i, "True")
               /\ UNCHANGED store
          ELSE /\ store' = [store EXCEPT
                                ![S3File].index =
                                    IndexReplaceFirst(pr.index, pr.voice_id, pr.data[1])]
               /\ Return(i, "True")
       /\ UNCHANGED outsideProcs

\* _s3_delete_voice: delete the blob key, the metadata key, get the index, put it
S3DeleteStep(i) ==
    LET pr == procs[i]
        s == store[S3File]
        KeepOther(e) == e.voice_id # pr.voice_id
    IN /\ InCall(i, "delete", S3File)
       /\ IF pr.pc = "enter"
          THEN /\ store' = [store EXCEPT ![S3File].pt = Del(s.pt, pr.voice_id)]
               /\ Step(i, "meta", <<>>, <<>>)
          ELSE IF pr.pc = "meta"
          THEN /\ store' = [store EXCEPT ![S3File].meta = Del(s.meta, pr.voice_id)]
               /\ Step(i, "get_index", <<>>, <<>>)
          ELSE IF pr.pc = "get_index"
          THEN /\ IF s.hasIndex
                  THEN Step(i, "put_index", <<>>, s.index)
                  ELSE Return(i, "True")
               /\ UNCHANGED store
          ELSE /\ store' = [store EXCEPT ![S3File].index = SeqFilter(pr.index, KeepOther)]
               /\ Return(i, "True")
       /\ UNCHANGED outsideProcs

ProcNext ==
    \E i \in Procs :
        \/ ProcCall(i)
        \/ LocalSaveStep(i) \/ LocalUpdateStep(i) \/ LocalDeleteStep(i)
        \/ S3SaveStep(i) \/ S3UpdateStep(i) \/ S3DeleteStep(i)

(***************************************************************************)
(* server.py, celery_app.py: the job orchestrator                          *)
(***************************************************************************)
MAX_TOTAL_CHARS == 5000

\* uuid4 values are numbered in the order they are drawn; 0 is never drawn
Uuids == 0..(2 * MaxJobs)

\* the lengths of the stripped request text that the handlers tell apart
TextLens == {0, 1, MAX_TOTAL_CHARS, MAX_TOTAL_CHARS + 1}

NoVoice == "None"

\* app.conf: task_track_started is not set, so a running task has no stored state
task_track_started == FALSE

Response(code, status, detail) == [code |-> code, status |-> status, detail |-> detail]

NoRequest == [op |-> "none", id |-> 0, res |-> Response(0, "", "")]

\* AsyncResult(id).state: PENDING for an id the backend holds nothing about
TaskState(id) == IF id \in DOMAIN backend THEN backend[id].state ELSE "PENDING"

\* str.lower() of a Celery state
Lower(state) ==
    CASE state = "STARTED" -> "started"
      [] state = "RETRY" -> "retry"
      [] state = "REVOKED" -> "revoked"
      [] state = "RECEIVED" -> "received"
      [] state = "PENDING" -> "pending"
      [] state = "SUCCESS" -> "success"
      [] state = "FAILURE" -> "failure"

\* job_status with the branch for a FAILURE state left out
job_status_no_failure_branch(job_id) ==
    IF ~useQueue THEN Response(404, "", "Job not found")
    ELSE IF TaskState(job_id) = "PENDING" THEN Response(200, "pending", "")
    ELSE IF TaskState(job_id) = "SUCCESS"
         THEN LET res == backend[job_id].result
              IN IF res.job_type = "narrate"
                 THEN IF res.status = "failed" THEN Response(200, "failed", res.error)
                      ELSE Response(200, "completed", "result_url")
                 ELSE Response(200, "completed", "voice_id")
    ELSE Response(200, Lower(TaskState(job_id)), "result")

\* GET /jobs/{job_id}
job_status(job_id) ==
    IF ~useQueue THEN Response(404, "", "Job not found")
    ELSE IF TaskState(job_id) = "PENDING" THEN Response(200, "pending", "")
    ELSE IF TaskState(job_id) = "SUCCESS"
         THEN LET res == backend[job_id].result
              IN IF res.job_type = "narrate"
                 THEN IF res.status = "failed" THEN Response(200, "failed", res.error)
                      ELSE Response(200, "completed", "result_url")
                 ELSE Response(200, "completed", "voice_id")
    ELSE IF TaskState(job_id) = "FAILURE" THEN Response(200, "failed", backend[job_id].result.error)
    ELSE Response(200, Lower(TaskState(job_id)), "result")

\* job_result serving the file of job_id whenever it exists
job_result_any_state(job_id) ==
    IF ~useQueue THEN Response(404, "", "Not found")
    ELSE IF job_id \notin wavs THEN Response(404, "", "Result file not found")
    ELSE Response(200, "", "wav")

\* GET /jobs/{job_id}/result
job_result(job_id) ==
    IF ~useQueue THEN Response(404, "", "Not found")
    ELSE IF TaskState(job_id) # "SUCCESS" THEN Response(404, "", "Job not completed")
    ELSE IF \/ backend[job_id].result.job_type # "narrate"
            \/ backend[job_id].result.status # "completed"
         THEN Response(404, "", "Not a completed narrate job")
    ELSE IF job_id \notin wavs THEN Response(404, "", "Result file not found")
    ELSE Response(200, "", "wav")

TaskResult(job_type, status, error) == [job_type |-> job_type, status |-> status, error |-> error]

\* narrate_task from its try block on, for a text the request handler accepted.
\* found: load_embedding_path(voice_id) gave a path; engine: "ok", or "raise" when
\* tts_generate, np.concatenate or sf.write raises
narrate_task(textLen, voice_id, found, engine) ==
    IF textLen = 0 \/ textLen > MAX_TOTAL_CHARS
    THEN TaskResult("narrate", "failed", "Invalid or too long text")
    ELSE IF voice_id # NoVoice /\ ~found THEN TaskResult("narrate", "failed", "Voice not found")
    ELSE IF engine = "raise" THEN TaskResult("narrate", "failed", "exception")
    ELSE TaskResult("narrate", "completed", "")

JobInit ==
    /\ useQueue \in BOOLEAN
    /\ tasks = <<>>
    /\ backend = <<>>
    /\ wavs = {}
    /\ nextUuid = 1
    /\ lastJob = NoRequest

\* POST /tts/narrate with async=true, when a queue is configured. brokerUp: the
\* broker accepts the message; otherwise narrate_task.delay raises.
EnqueueNarration ==
    \E textLen \in TextLens, voice_id \in {NoVoice, "v1"}, brokerUp \in BOOLEAN :
        /\ useQueue
        /\ nextUuid + 1 <= 2 * MaxJobs
        /\ IF textLen = 0
           THEN /\ lastJob' = [op |-> "narrate", id |-> 0, res |-> Response(400, "", "No text")]
                /\ UNCHANGED <<tasks, nextUuid>>
           ELSE IF textLen > MAX_TOTAL_CHARS
           THEN /\ lastJob' = [op |-> "narrate", id |-> 0, res |-> Response(400, "", "Text exceeds")]
                /\ UNCHANGED <<tasks, nextUuid>>
           ELSE IF voice_id = NoVoice
           THEN /\ lastJob' = [op |-> "narrate", id |-> 0,
                               res |-> Response(400, "", "Narrate requires a voice_id.")]
                /\ UNCHANGED <<tasks, nextUuid>>
           ELSE IF ~brokerUp
           THEN \* job_id = str(uuid.uuid4()) was drawn; delay raises, nothing is queued
                /\ lastJob' = [op |-> "narrate", id |-> 0, res |-> Response(500, "", "OperationalError")]
                /\ nextUuid' = nextUuid + 1
                /\ UNCHANGED tasks
           ELSE \* the handler's own uuid is job_id; delay() gives the task its own id
                LET job_id == nextUuid
                    task_id == nextUuid + 1
                IN /\ tasks' = Put(tasks, task_id,
                                   [job_id |-> job_id, textLen |-> textLen,
                                    voice_id |-> voice_id, phase |-> "queued"])
                   /\ nextUuid' = nextUuid + 2
                   /\ lastJob' = [op |-> "narrate", id |-> job_id, res |-> Response(200, "", "job_id")]
        /\ UNCHANGED <<useQueue, backend, wavs, outsideJobs>>

\* the worker takes the message off the queue and starts the task
StartTask ==
    \E t \in DOMAIN tasks :
        /\ tasks[t].phase = "queued"
        /\ tasks' = [tasks EXCEPT ![t].phase = "running"]
        /\ backend' = IF task_track_started
                      THEN Put(backend, t, [state |-> "STARTED", result |-> TaskResult("", "", "")])
                      ELSE backend
        /\ UNCHANGED <<useQueue, wavs, nextUuid, lastJob, outsideJobs>>

\* the task runs to its end and the worker stores its outcome. setup: os.makedirs
\* and the imports before the try block succeed; otherwise the task raises.
FinishTask ==
    \E t \in DOMAIN tasks, setup \in BOOLEAN, found \in BOOLEAN, engine \in {"ok", "raise"} :
        /\ tasks[t].phase = "running"
        /\ tasks' = [tasks EXCEPT ![t].phase = "done"]
        /\ IF ~setup
           THEN /\ backend' = Put(backend, t, [state |-> "FAILURE",
                                               result |-> TaskResult("", "", "exception")])
                /\ UNCHANGED wavs
           ELSE LET res == narrate_task(tasks[t].textLen, tasks[t].voice_id, found, engine)
                IN /\ backend' = Put(backend, t, [state |-> "SUCCESS", result |-> res])
                   /\ wavs' = IF res.status = "completed" THEN wavs \cup {tasks[t].job_id} ELSE wavs
        /\ UNCHANGED <<useQueue, nextUuid, lastJob, outsideJobs>>

\* result_expires: the backend drops a stored result 24 h after it was written
ExpireResult ==
    \E t \in DOMAIN backend :
        /\ backend[t].state \in {"SUCCESS", "FAILURE"}
        /\ backend' = Del(backend, t)
        /\ UNCHANGED <<useQueue, tasks, wavs, nextUuid, lastJob, outsideJobs>>

GetJobStatus ==
    \E id \in Uuids :
        /\ lastJob' = [op |-> "status", id |-> id, res |-> job_status(id)]
        /\ UNCHANGED <<useQueue, tasks, backend, wavs, nextUuid, outsideJobs>>

GetJobResult ==
    \E id \in Uuids :
        /\ lastJob' = [op |-> "result", id |-> id, res |-> job_result(id)]
        /\ UNCHANGED <<useQueue, tasks, backend, wavs, nextUuid, outsideJobs>>

JobNext ==
    EnqueueNarration \/ StartTask \/ FinishTask \/ ExpireResult \/ GetJobStatus \/ GetJobResult

(***************************************************************************)
(* voice_clone.py: the clone pipeline                                      *)
(***************************************************************************)
CLONE_MIN_DURATION_SEC == 3
CLONE_MAX_DURATION_SEC == 120

\* sample durations in seconds, on both sides of each bound
Durations ==
    {0, CLONE_MIN_DURATION_SEC - 1, CLONE_MIN_DURATION_SEC, CLONE_MIN_DURATION_SEC + 1,
     CLONE_MAX_DURATION_SEC - 1, CLONE_MAX_DURATION_SEC, CLONE_MAX_DURATION_SEC + 1}

\* the dict of the two latents that the engine returns
CloneEmbedding == [kind |-> "dict", ndim |-> 0, data |-> "e3"]

\* the duration checks with both bounds excluded
clone_validation_exclusive(load, duration) ==
    IF load = "raise" THEN "Could not load audio"
    ELSE IF duration <= CLONE_MIN_DURATION_SEC THEN "Audio too short"
    ELSE IF duration >= CLONE_MAX_DURATION_SEC THEN "Audio too long"
    ELSE "ok"

\* _get_duration_sec and the two duration checks of clone_voice: the message of
\* the ValueError raised, "ok" when none is
clone_validation(load, duration) ==
    IF load = "raise" THEN "Could not load audio"
    ELSE IF duration < CLONE_MIN_DURATION_SEC THEN "Audio too short"
    ELSE IF duration > CLONE_MAX_DURATION_SEC THEN "Audio too long"
    ELSE "ok"

\* clone_voice under pairing p. engine: get_conditioning_latents returns or
\* raises; voice_id: the uuid create_voice_id draws. Gives the store after the
\* call, the voice_id returned or the error raised, and the engine calls made.
clone_voice(p, s, load, duration, engine, voice_id, consent_scope, name, owner_id, faction, t, fault) ==
    IF clone_validation(load, duration) # "ok"
    THEN [s |-> s, ret |-> clone_validation(load, duration), calls |-> 0]
    ELSE IF engine = "raise"
    THEN [s |-> s, ret |-> "Voice extraction failed", calls |-> 1]
    ELSE LET r == save_embedding(p, s, voice_id, CloneEmbedding, consent_scope, name,
                                 owner_id, faction, t, t, fault)
         IN [s |-> r.s, ret |-> IF r.ret = "ok" THEN voice_id ELSE r.ret, calls |-> 1]

NoClone == [op |-> "none", duration |-> 0, load |-> "ok", engine |-> "ok", voice_id |-> "v1",
            name |-> NoName, fault |-> "none",
            res |-> [p \in Pairings |-> ""], calls |-> [p \in Pairings |-> 0]]

\* the voice_ids no pairing holds a blob, a metadata record or a row for
FreshVoiceIds ==
    {v \in VoiceIds : \A p \in Pairings :
        /\ v \notin DOMAIN store[p].pt
        /\ v \notin DOMAIN store[p].meta
        /\ v \notin DOMAIN store[p].db}

CloneInit == clones = 0 /\ lastClone = NoClone

\* one synchronous clone_voice call, run against each pairing
CloneVoice ==
    \E load \in {"ok", "raise"}, d \in Durations, engine \in {"ok", "raise"},
       v \in FreshVoiceIds, n \in Names, o \in {NoOwner, "A"}, f \in Factions,
       fault \in {"none", "meta"} :
        /\ clones < MaxClones
        /\ clones' = clones + 1
        /\ LET r == [p \in Pairings |->
                        clone_voice(p, store[p], load, d, engine, v, "tts", n, o, f, now, fault)]
               saved == clone_validation(load, d) = "ok" /\ engine = "ok"
           IN /\ store' = [p \in Pairings |-> r[p].s]
              /\ faulted' = (faulted \/ (saved /\ fault # "none"))
              /\ lastClone' = [op |-> "clone", duration |-> d, load |-> load, engine |-> engine,
                               voice_id |-> v, name |-> n,
                               fault |-> IF saved THEN fault ELSE "none",
                               res |-> [p \in Pairings |-> r[p].ret],
                               calls |-> [p \in Pairings |-> r[p].calls]]
        /\ UNCHANGED <<now, last, seeded, writes, outsideClone>>

CloneNext == CloneVoice

(***************************************************************************)
(* server.py, celery_app.py: clone jobs                                    *)
(***************************************************************************)
\* the keyword arguments clone_voice_task declares besides upload_path
clone_voice_task_params == {"consent_scope", "name", "owner_id"}

\* the keyword arguments create_voice passes to clone_voice_task.delay
create_voice_kwargs == {"consent_scope", "name", "owner_id", "faction"}

\* the value a finished clone task left in the result backend
CloneResult(status, error, voice_id) ==
    [job_type |-> "", status |-> status, error |-> error, voice_id |-> voice_id]

\* a message for clone_voice_task; ret: what clone_voice returned or raised
\* once the task has run
CloneTask(p, kwargs, load, duration, name, owner_id) ==
    [job_id |-> 0, upload_path |-> TRUE, p |-> p, kwargs |-> kwargs, load |-> load,
     duration |-> duration, name |-> name, owner_id |-> owner_id, phase |-> "queued",
     ret |-> ""]

IsCloneTask(t) == "upload_path" \in DOMAIN tasks[t]

\* the pairing the deployment is configured with, the same for all its tasks
SamePairing(p) == \A t \in DOMAIN tasks : IsCloneTask(t) => tasks[t].p = p

SampleDurations == {CLONE_MIN_DURATION_SEC - 1, CLONE_MIN_DURATION_SEC + 1}

\* res.get("voice_id") of the result job_status reads
job_status_voice_id(job_id) ==
    IF TaskState(job_id) = "SUCCESS" /\ "voice_id" \in DOMAIN backend[job_id].result
    THEN backend[job_id].result.voice_id
    ELSE NoVoice

CloneRequest(id, res, p, brokerUp, load, duration, name, owner_id) ==
    [op |-> "clone", id |-> id, res |-> res, p |-> p, brokerUp |-> brokerUp, load |-> load,
     duration |-> duration, name |-> name, owner_id |-> owner_id, upload_path |-> FALSE]

CloneJobInit ==
    /\ StoreInit
    /\ useQueue \in BOOLEAN
    /\ tasks = <<>>
    /\ backend = <<>>
    /\ wavs = {}
    /\ nextUuid = 1
    /\ lastJob = NoRequest

\* POST /voices/clone when a queue is configured. typing: delay checks the
\* arguments against the task's signature before it sends (Task.typing, on
\* unless switched off); brokerUp: the broker accepts the message; unlinkOk: the
\* os.unlink of the except clause succeeds. upload_path of the request: the
\* file written for it exists when the request is answered.
CreateVoiceAsync ==
    \E p \in Pairings, filename \in BOOLEAN, typing \in BOOLEAN, brokerUp \in BOOLEAN,
       unlinkOk \in BOOLEAN, load \in {"ok", "raise"}, d \in SampleDurations, n \in Names, o \in {NoOwner, "A"} :
        /\ useQueue
        /\ SamePairing(p)
        /\ nextUuid + 1 <= 2 * MaxCloneJobs
        /\ IF ~filename
           THEN /\ lastJob' = CloneRequest(0, Response(400, "", "No file"), p, brokerUp,
                                           load, d, n, o)
                /\ UNCHANGED <<tasks, nextUuid>>
           ELSE IF (typing /\ ~(create_voice_kwargs \subseteq clone_voice_task_params))
                     \/ ~brokerUp
           THEN \* the upload was written under a uuid of its own and is unlinked again
                /\ lastJob' = [CloneRequest(0, Response(503, "", "Queue unavailable"), p,
                                            brokerUp, load, d, n, o)
                                   EXCEPT !.upload_path = ~unlinkOk]
                /\ nextUuid' = nextUuid + 1
                /\ UNCHANGED tasks
           ELSE LET task_id == nextUuid + 1
                IN /\ tasks' = Put(tasks, task_id,
                                   CloneTask(p, create_voice_kwargs, load, d, n, o))
                   /\ nextUuid' = nextUuid + 2
                   /\ lastJob' = [CloneRequest(task_id, Response(200, "", "job_id"), p,
                                               brokerUp, load, d, n, o)
                                      EXCEPT !.upload_path = TRUE]
        /\ UNCHANGED <<useQueue, backend, wavs, storeVars, cacheVars, splitVars, cloneVars,
                       narrateVars, procVars>>

\* clone_voice_task.delay called with the arguments the task declares, the
\* upload saved beforehand as its docstring asks
DelayCloneTask ==
    \E p \in Pairings, load \in {"ok", "raise"}, d \in SampleDurations, n \in Names,
       o \in {NoOwner, "A"} :
        /\ useQueue
        /\ SamePairing(p)
        /\ nextUuid + 1 <= 2 * MaxCloneJobs
        /\ tasks' = Put(tasks, nextUuid + 1,
                        CloneTask(p, clone_voice_task_params, load, d, n, o))
        /\ nextUuid' = nextUuid + 2
        /\ lastJob' = [op |-> "delay", id |-> nextUuid + 1, res |-> Response(0, "", "")]
        /\ UNCHANGED <<useQueue, backend, wavs, storeVars, cacheVars, splitVars, cloneVars,
                       narrateVars, procVars>>

\* the worker runs clone_voice_task for a queued message. engine: the latents
\* call returns or raises; v: the uuid create_voice_id draws; unlinkOk: the
\* os.unlink of the finally clause succeeds
RunCloneTask ==
    \E t \in DOMAIN tasks, engine \in {"ok", "raise"}, v \in FreshVoiceIds,
       unlinkOk \in BOOLEAN :
        /\ IsCloneTask(t)
        /\ tasks[t].phase = "queued"
        /\ IF ~(tasks[t].kwargs \subseteq clone_voice_task_params)
           THEN \* the call of the task raises TypeError before its body runs
                /\ tasks' = [tasks EXCEPT ![t].phase = "done", ![t].ret = "TypeError"]
                /\ backend' = Put(backend, t,
                                  [state |-> "FAILURE",
                                   result |-> CloneResult("", "TypeError", NoVoice)])
                /\ UNCHANGED store
           ELSE LET m == tasks[t]
                    r == clone_voice(m.p, store[m.p], m.load, m.duration, engine, v, "tts",
                                     m.name, m.owner_id, NoName, now, "none")
                IN /\ tasks' = [tasks EXCEPT ![t].phase = "done", ![t].ret = r.ret,
                                             ![t].upload_path = ~unlinkOk]
                   /\ store' = [store EXCEPT ![m.p] = r.s]
                   /\ backend' = Put(backend, t,
                                     [state |-> "SUCCESS",
                                      result |-> IF r.ret = v
                                                 THEN CloneResult("completed", "", v)
                                                 ELSE CloneResult("failed", r.ret, NoVoice)])
        /\ UNCHANGED <<useQueue, wavs, nextUuid, lastJob, now, last, seeded, faulted, writes,
                       cacheVars, splitVars, cloneVars, narrateVars, procVars>>

\* an asynchronous narration request made of the same deployment
EnqueueNarrationBesideClones == nextUuid + 1 <= 2 * MaxCloneJobs /\ EnqueueNarration

CloneJobNext ==
    CreateVoiceAsync \/ DelayCloneTask \/ RunCloneTask \/ EnqueueNarrationBesideClones

(***************************************************************************)
(* text_utils.py: the narration chunker                                    *)
(***************************************************************************)
MAX_CHUNKS == 15

\* the paragraph branch: the stripped non-empty paragraphs, at most MAX_CHUNKS
ParagraphChunks(text) ==
    LET parts == SplitParagraphs(text)
        keep == {i \in 1..Len(parts) : strip(parts[i]) # <<>>}
        RECURSIVE Raw(_)
        Raw(from) ==
            LET S == {i \in keep : i >= from}
            IN IF S = {} THEN <<>> ELSE <<strip(parts[MinOf(S)])>> \o Raw(MinOf(S) + 1)
        raw == Raw(1)
    IN [i \in 1..Min(Len(raw), MAX_CHUNKS) |->
            IF Len(raw[i]) > MAX_TOTAL_CHARS THEN Slice(raw[i], MAX_TOTAL_CHARS) ELSE raw[i]]

\* the cut of the fixed branch backing off to a space at half the window too
FixedCutFromHalf(remaining, max_chars) ==
    LET segment == Slice(remaining, max_chars)
        last_space == rfind(segment, " ")
    IN IF last_space >= max_chars \div 2 THEN last_space + 1 ELSE max_chars

\* the fixed branch: cut, for a remaining text longer than max_chars
FixedCut(remaining, max_chars) ==
    LET segment == Slice(remaining, max_chars)
        last_space == rfind(segment, " ")
    IN IF last_space > max_chars \div 2 THEN last_space + 1 ELSE max_chars

\* the fixed branch: the while loop, remaining and chunks being its variables
RECURSIVE FixedLoop(_, _, _)
FixedLoop(remaining, chunks, max_chars) ==
    IF ~(remaining # <<>> /\ Len(chunks) < MAX_CHUNKS) THEN chunks
    ELSE IF Len(remaining) <= max_chars THEN Append(chunks, strip(remaining))
    ELSE LET cut == FixedCut(remaining, max_chars)
         IN FixedLoop(strip(SliceFrom(remaining, cut)),
                      Append(chunks, strip(Slice(remaining, cut))),
                      max_chars)

\* the values remaining takes at the head of the while loop, n chunks being made
RECURSIVE FixedRemaining(_, _, _)
FixedRemaining(remaining, n, max_chars) ==
    IF ~(remaining # <<>> /\ n < MAX_CHUNKS) THEN <<>>
    ELSE IF Len(remaining) <= max_chars THEN <<remaining>>
    ELSE <<remaining>> \o FixedRemaining(strip(SliceFrom(remaining, FixedCut(remaining, max_chars))),
                                         n + 1, max_chars)

\* the sentence branch: the for loop over raw from its i-th element on, current
\* and chunks being its variables; the result is the two at the loop's exit
RECURSIVE SentenceLoop(_, _, _, _, _)
SentenceLoop(raw, i, current, chunks, max_chars) ==
    IF i > Len(raw) THEN [current |-> current, chunks |-> chunks]
    ELSE LET s == strip(raw[i])
         IN IF s = <<>> THEN SentenceLoop(raw, i + 1, current, chunks, max_chars)
            ELSE IF Len(current) + Len(s) + 1 <= max_chars /\ Len(chunks) < MAX_CHUNKS
            THEN SentenceLoop(raw, i + 1,
                              IF current # <<>> THEN strip(current \o <<" ">> \o s) ELSE s,
                              chunks, max_chars)
            ELSE LET appended == IF current # <<>> THEN Append(chunks, current) ELSE chunks
                 IN IF current # <<>> /\ Len(appended) >= MAX_CHUNKS
                    THEN [current |-> current, chunks |-> appended]
                    ELSE SentenceLoop(raw, i + 1,
                                      IF Len(s) > max_chars THEN Slice(s, max_chars) ELSE s,
                                      appended, max_chars)

\* the sentence branch appending current after the loop even when it is empty
SentenceChunksAppendEmpty(text, max_chars) ==
    LET end == SentenceLoop(SplitSentences(text), 1, <<>>, <<>>, max_chars)
    IN IF Len(end.chunks) < MAX_CHUNKS
       THEN Append(end.chunks, end.current)
       ELSE end.chunks

SentenceChunks(text, max_chars) ==
    LET end == SentenceLoop(SplitSentences(text), 1, <<>>, <<>>, max_chars)
    IN IF end.current # <<>> /\ Len(end.chunks) < MAX_CHUNKS
       THEN Append(end.chunks, end.current)
       ELSE end.chunks

\* split_for_tts(text, chunk_by, max_chars)
split_for_tts(text, chunk_by, max_chars) ==
    LET stripped == strip(text)
        t == IF Len(stripped) > MAX_TOTAL_CHARS THEN Slice(stripped, MAX_TOTAL_CHARS) ELSE stripped
        chunks == IF chunk_by = "paragraph" THEN ParagraphChunks(t)
                  ELSE IF chunk_by = "fixed"
                  THEN FixedLoop(t, <<>>, Max(50, Min(max_chars, 1500)))
                  ELSE SentenceChunks(t, max_chars)
    IN IF stripped = <<>> THEN <<>> ELSE Slice(chunks, MAX_CHUNKS)

\* a run of n letters, and k copies of unit
Word(n) == [i \in 1..n |-> <<"a", "b", "c">>[((i - 1) % 3) + 1]]
Repeat(unit, k) == [i \in 1..(k * Len(unit)) |-> unit[((i - 1) % Len(unit)) + 1]]

\* texts: blank; short with blanks around it; a sentence of 60 letters and a short
\* one; 17 short sentences; 17 paragraphs; 1001 words (5005 characters); 26
\* sentences of 200 characters; a sentence of 1600 letters and a short one; 5001
\* letters; mixed separators; words of 7 letters; a space at offset 25, at offset
\* 26, and a space at offset 10 with a line break at offset 40, each before a
\* long run of letters
Texts ==
    { <<" ", "\n">>,
      <<" ", "a", "b", ".", "\n">>,
      Word(60) \o <<".", " ", "d", "e", ".">>,
      Repeat(<<"a", "b", ".", " ">>, 17),
      Repeat(<<"a", "b", "\n", "\n">>, 17),
      Repeat(<<"a", "b", "c", "d", " ">>, 1001),
      Repeat(Word(198) \o <<".", " ">>, 26),
      Word(1600) \o <<".", " ", "d", ".">>,
      Word(5001),
      <<"a", ".", "\n", "\n", "\n", "b", "!", " ", "c", " ", "d", "?", " ", " ", "e">>,
      Repeat(Word(7) \o <<" ">>, 40),
      Word(25) \o <<" ">> \o Word(120),
      Word(26) \o <<" ">> \o Word(120),
      Word(10) \o <<" ">> \o Word(29) \o <<"\n">> \o Word(120) }

ChunkModes == {"sentence", "paragraph", "fixed", "word"}

MaxCharsValues == {0 - 1, 0, 10, 50, 500, 1500, 2000}

SplitInit ==
    /\ splitText \in Texts
    /\ splitMode \in ChunkModes
    /\ splitMax \in MaxCharsValues
    /\ splitChunks = <<>>
    /\ returned = FALSE

\* one call of split_for_tts
SplitForTts ==
    /\ ~returned
    /\ splitChunks' = split_for_tts(splitText, splitMode, splitMax)
    /\ returned' = TRUE
    /\ UNCHANGED <<splitText, splitMode, splitMax, outsideSplit>>

SplitNext == SplitForTts

(***************************************************************************)
(* server.py, celery_app.py: one narration request on its two paths        *)
(***************************************************************************)
POCKET_PRESET_VOICES ==
    {"alba", "marius", "javert", "jean", "fantine", "cosette", "eponine", "azelma"}

_is_preset_voice(voice_id) == voice_id # NoVoice /\ voice_id \in POCKET_PRESET_VOICES

\* max(50, min(max_chars, 1500)), as both callers of split_for_tts write it
clamp_max_chars(n) == Max(50, Min(n, 1500))

\* tts_narrate up to the branch on async: the 400 it raises ("ok" when none),
\* the stripped text, the chunk mode and the chunks it goes on with
tts_narrate_validation(body) ==
    LET t == strip(body.text)
        cb == IF body.chunk_by \in {"sentence", "paragraph", "fixed"}
              THEN body.chunk_by ELSE "sentence"
        cs == split_for_tts(t, cb, clamp_max_chars(body.max_chars))
    IN IF t = <<>> THEN [detail |-> "No text", text |-> t, chunk_by |-> cb, chunks |-> <<>>]
       ELSE IF Len(t) > MAX_TOTAL_CHARS
       THEN [detail |-> "Text exceeds", text |-> t, chunk_by |-> cb, chunks |-> <<>>]
       ELSE IF cs = <<>>
       THEN [detail |-> "No chunks produced from text", text |-> t, chunk_by |-> cb,
             chunks |-> <<>>]
       ELSE [detail |-> "ok", text |-> t, chunk_by |-> cb, chunks |-> Slice(cs, MAX_CHUNKS)]

\* the checks of narrate_task with a text of exactly MAX_TOTAL_CHARS refused
narrate_task_validation_exclusive(msg) ==
    LET t == strip(msg.text)
        cs == split_for_tts(t, msg.chunk_by, clamp_max_chars(msg.max_chars))
    IN IF t = <<>> \/ Len(t) >= MAX_TOTAL_CHARS
       THEN [error |-> "Invalid or too long text", chunks |-> <<>>]
       ELSE IF cs = <<>> THEN [error |-> "No chunks produced", chunks |-> <<>>]
       ELSE [error |-> "ok", chunks |-> Slice(cs, MAX_CHUNKS)]

\* the checks of narrate_task on its text: the error of the failed result ("ok"
\* when none) and the chunks it goes on with
narrate_task_validation(msg) ==
    LET t == strip(msg.text)
        cs == split_for_tts(t, msg.chunk_by, clamp_max_chars(msg.max_chars))
    IN IF t = <<>> \/ Len(t) > MAX_TOTAL_CHARS
       THEN [error |-> "Invalid or too long text", chunks |-> <<>>]
       ELSE IF cs = <<>> THEN [error |-> "No chunks produced", chunks |-> <<>>]
       ELSE [error |-> "ok", chunks |-> Slice(cs, MAX_CHUNKS)]

\* the synthesis loop over n chunks when tts_generate raises on its failAt-th
\* call (never, when failAt = 0): the indices of the chunks it was called for
SynthCalls(n, failAt) == [i \in 1..(IF failAt = 0 THEN n ELSE Min(n, failAt)) |-> i]
SynthOk(n, failAt) == failAt = 0 \/ failAt > n

\* the voice resolution of the synchronous path taking every reference as a path
resolve_voice_unchecked(voice_id, found) == <<voice_id>>

\* the synchronous path: a preset name stands for itself, any other reference
\* goes through load_embedding_path; <<>> when it gives no path
resolve_voice(voice_id, found) ==
    IF _is_preset_voice(voice_id) THEN <<voice_id>>
    ELSE IF found THEN <<voice_id>> ELSE <<>>

\* out: the samples of the WAV produced; failAt: the engine fault of the run
Outcome(code, detail, chunks, calls, found) ==
    [done |-> TRUE, code |-> code, detail |-> detail, chunks |-> chunks, calls |-> calls,
     found |-> found, out |-> <<>>, failAt |-> 0]

NoOutcome == [done |-> FALSE, code |-> 0, detail |-> "", chunks |-> <<>>, calls |-> <<>>,
              found |-> FALSE, out |-> <<>>, failAt |-> 0]

\* a deterministic engine: the sample array generate returns for a chunk
StubEngine(chunk) == <<chunk[1], Len(chunk)>>

RECURSIVE np_concatenate(_)
np_concatenate(arrays) ==
    IF arrays = <<>> THEN <<>> ELSE Head(arrays) \o np_concatenate(Tail(arrays))

\* the loop putting each array in front of the ones before it
RECURSIVE synth_loop_prepend(_, _, _)
synth_loop_prepend(chunks, i, audio_list) ==
    IF i > Len(chunks) THEN audio_list
    ELSE synth_loop_prepend(chunks, i + 1, <<StubEngine(chunks[i])>> \o audio_list)

\* for chunk in chunks: audio_list.append(audio), from the i-th chunk on
RECURSIVE synth_loop(_, _, _)
synth_loop(chunks, i, audio_list) ==
    IF i > Len(chunks) THEN audio_list
    ELSE synth_loop(chunks, i + 1, Append(audio_list, StubEngine(chunks[i])))

\* concatenated = np.concatenate(audio_list), written as one WAV
narration_audio(chunks) == np_concatenate(synth_loop(chunks, 1, <<>>))

\* tts_narrate on its synchronous path. found: the blob of voice_id exists;
\* failAt: the tts_generate call that raises
narrate_sync(body, found, failAt) ==
    LET v == tts_narrate_validation(body)
        path == resolve_voice(body.voice_id, found)
        exists == _is_preset_voice(body.voice_id) \/ found
    IN IF v.detail # "ok" THEN Outcome(400, v.detail, <<>>, <<>>, found)
       ELSE IF body.voice_id = NoVoice
       THEN Outcome(400, "Narrate requires a voice_id. Select a character voice.",
                    v.chunks, <<>>, found)
       ELSE IF path = <<>> THEN Outcome(404, "Voice not found", v.chunks, <<>>, found)
       ELSE IF ~exists
       THEN \* tts_generate raises ValueError on its first call: no such file
            Outcome(400, "Voice not found. Select a built-in voice or a cloned voice.",
                    v.chunks, <<1>>, found)
       ELSE IF ~SynthOk(Len(v.chunks), failAt)
       THEN Outcome(500, "Generation failed", v.chunks,
                    SynthCalls(Len(v.chunks), failAt), found)
       ELSE [Outcome(200, "wav", v.chunks, SynthCalls(Len(v.chunks), failAt), found)
               EXCEPT !.out = narration_audio(v.chunks)]

\* the asynchronous path queueing a narration whether or not a voice is named
narrate_async_no_voice_check(body, brokerUp) ==
    LET v == tts_narrate_validation(body)
    IN IF v.detail # "ok" THEN [res |-> Outcome(400, v.detail, <<>>, <<>>, FALSE), msg |-> <<>>]
       ELSE IF ~brokerUp
       THEN [res |-> Outcome(500, "OperationalError", v.chunks, <<>>, FALSE), msg |-> <<>>]
       ELSE [res |-> Outcome(200, "job_id", v.chunks, <<>>, FALSE),
             msg |-> <<[text |-> v.text, chunk_by |-> v.chunk_by,
                        max_chars |-> clamp_max_chars(body.max_chars),
                        voice_id |-> body.voice_id]>>]

\* tts_narrate on its asynchronous path: the response and the message queued
narrate_async(body, brokerUp) ==
    LET v == tts_narrate_validation(body)
    IN IF v.detail # "ok" THEN [res |-> Outcome(400, v.detail, <<>>, <<>>, FALSE), msg |-> <<>>]
       ELSE IF body.voice_id = NoVoice
       THEN [res |-> Outcome(400, "Narrate requires a voice_id.", v.chunks, <<>>, FALSE),
             msg |-> <<>>]
       ELSE IF ~brokerUp
       THEN [res |-> Outcome(500, "OperationalError", v.chunks, <<>>, FALSE), msg |-> <<>>]
       ELSE [res |-> Outcome(200, "job_id", v.chunks, <<>>, FALSE),
             msg |-> <<[text |-> v.text, chunk_by |-> v.chunk_by,
                        max_chars |-> clamp_max_chars(body.max_chars),
                        voice_id |-> body.voice_id]>>]

\* narrate_task from its try block on; code 200 stands for a completed result
\* and 500 for a failed one
narrate_task_run(msg, found, failAt) ==
    LET v == narrate_task_validation(msg)
    IN IF v.error # "ok" THEN Outcome(500, v.error, <<>>, <<>>, found)
       ELSE IF msg.voice_id # NoVoice /\ ~found
       THEN Outcome(500, "Voice not found", v.chunks, <<>>, found)
       ELSE IF ~SynthOk(Len(v.chunks), failAt)
       THEN Outcome(500, "Generation failed", v.chunks, SynthCalls(Len(v.chunks), failAt), found)
       ELSE [Outcome(200, "completed", v.chunks, SynthCalls(Len(v.chunks), failAt), found)
               EXCEPT !.out = narration_audio(v.chunks)]

\* request texts: blank; short; 17 sentences; 5000 letters; 5001 letters; 1001 words
NarrateTexts ==
    { <<" ", "\n">>,
      <<" ", "a", "b", ".", "\n">>,
      Repeat(<<"a", "b", ".", " ">>, 17),
      Word(MAX_TOTAL_CHARS),
      Word(MAX_TOTAL_CHARS + 1),
      Repeat(<<"a", "b", "c", "d", " ">>, 1001) }

NarrateInit ==
    /\ req \in [text : NarrateTexts, chunk_by : {"sentence", "fixed", "word"},
                max_chars : {50, 2000}, voice_id : {NoVoice, "alba", "v1"}]
    /\ syncRes = NoOutcome
    /\ asyncRes = NoOutcome
    /\ narrMsg = <<>>
    /\ workerRes = NoOutcome

\* POST /tts/narrate taking the synchronous path: async is false or no queue is
\* configured
NarrateSync ==
    \E async_ \in BOOLEAN, found \in BOOLEAN, failAt \in 0..2 :
        /\ ~(async_ /\ useQueue)
        /\ ~syncRes.done
        /\ syncRes' = [narrate_sync(req, found, failAt) EXCEPT !.failAt = failAt]
        /\ UNCHANGED <<req, asyncRes, narrMsg, workerRes, outsideNarrate>>

\* POST /tts/narrate with async true and a queue configured
NarrateAsync ==
    \E brokerUp \in BOOLEAN :
        /\ useQueue
        /\ ~asyncRes.done
        /\ asyncRes' = narrate_async(req, brokerUp).res
        /\ narrMsg' = narrate_async(req, brokerUp).msg
        /\ UNCHANGED <<req, syncRes, workerRes, outsideNarrate>>

\* the worker runs narrate_task for the queued message
RunNarrateTask ==
    \E found \in BOOLEAN, failAt \in 0..2 :
        /\ narrMsg # <<>>
        /\ ~workerRes.done
        /\ workerRes' = [narrate_task_run(narrMsg[1], found, failAt) EXCEPT !.failAt = failAt]
        /\ UNCHANGED <<req, syncRes, asyncRes, narrMsg, outsideNarrate>>

NarrateNext == NarrateSync \/ NarrateAsync \/ RunNarrateTask

(***************************************************************************)
(* tts_service.py: the audio artifact cache                                *)
(***************************************************************************)
\* _evict_old_audio with pop() in place of pop(0)
_evict_newest_audio(cache, files, unlinkOk) ==
    IF Len(cache) >= AUDIO_CACHE_SIZE /\ cache # <<>>
    THEN [cache |-> SubSeq(cache, 1, Len(cache) - 1),
          files |-> IF unlinkOk THEN files \ {cache[Len(cache)]} ELSE files]
    ELSE [cache |-> cache, files |-> files]

\* _evict_old_audio leaving the loop, entry kept, when os.unlink raises
_evict_old_audio_keep_on_failure(cache, files, unlinkOk) ==
    IF Len(cache) >= AUDIO_CACHE_SIZE /\ cache # <<>> /\ unlinkOk
    THEN [cache |-> Tail(cache), files |-> files \ {Head(cache)}]
    ELSE [cache |-> cache, files |-> files]

RECURSIVE _evict_old_audio(_, _, _)
\* while the cache is full: pop the oldest path, unlink it, swallow OSError
_evict_old_audio(cache, files, unlinkOk) ==
    IF Len(cache) >= AUDIO_CACHE_SIZE /\ cache # <<>>
    THEN _evict_old_audio(Tail(cache),
                          IF unlinkOk THEN files \ {Head(cache)} ELSE files,
                          unlinkOk)
    ELSE [cache |-> cache, files |-> files]

GenResult(res, path) == [res |-> res, path |-> path]

Threads == 1..MaxThreads

\* a thread not inside generate_to_file
Idle == [pc |-> "idle", path |-> 0]

CacheInit ==
    /\ AUDIO_CACHE_SIZE \in 0..MaxCapacity
    /\ _audio_cache = <<>>
    /\ tmpFiles = {}
    /\ nextTmp = 1
    /\ inserted = <<>>
    /\ unlinkFailed = FALSE
    /\ lastGen = GenResult("none", 0)
    /\ threads = [t \in Threads |-> Idle]
    /\ popped = <<>>

\* generate_to_file. gen: generate() returns or raises; write: sf.write returns
\* or raises; unlinkOk: the os.unlink calls of this call succeed.
GenerateToFile ==
    \E gen \in {"ok", "raise"}, write \in {"ok", "raise"}, unlinkOk \in BOOLEAN :
        /\ nextTmp <= MaxInserts
        /\ IF gen = "raise"
           THEN /\ lastGen' = GenResult("generate failed", 0)
                /\ UNCHANGED <<_audio_cache, tmpFiles, nextTmp, inserted, unlinkFailed>>
           ELSE LET ev == _evict_old_audio(_audio_cache, tmpFiles, unlinkOk)
                    path == nextTmp
                    evicted == Len(ev.cache) < Len(_audio_cache)
                IN /\ nextTmp' = nextTmp + 1
                   /\ IF write = "raise"
                      THEN /\ _audio_cache' = ev.cache
                           /\ tmpFiles' = IF unlinkOk THEN ev.files ELSE ev.files \cup {path}
                           /\ unlinkFailed' = (unlinkFailed \/ ~unlinkOk)
                           /\ lastGen' = GenResult("Could not save audio", 0)
                           /\ UNCHANGED inserted
                      ELSE /\ _audio_cache' = Append(ev.cache, path)
                           /\ tmpFiles' = ev.files \cup {path}
                           /\ unlinkFailed' = (unlinkFailed \/ (evicted /\ ~unlinkOk))
                           /\ inserted' = Append(inserted, path)
                           /\ lastGen' = GenResult("ok", path)
        /\ UNCHANGED <<AUDIO_CACHE_SIZE, threads, popped, outsideCache>>

CacheNext == GenerateToFile

(***************************************************************************)
(* tts_service.py: generate_to_file statement by statement, in threads     *)
(***************************************************************************)
At(t, pc) == threads[t].pc = pc
Goto(t, pc, path) == threads' = [threads EXCEPT ![t] = [pc |-> pc, path |-> path]]

\* a thread enters generate_to_file and generate() returns or raises
ThreadGenerate(t) ==
    \E gen \in {"ok", "raise"} :
        /\ At(t, "idle")
        /\ nextTmp <= MaxInserts
        /\ IF gen = "raise"
           THEN /\ lastGen' = GenResult("generate failed", 0)
                /\ UNCHANGED threads
           ELSE /\ Goto(t, "while", 0)
                /\ UNCHANGED lastGen
        /\ UNCHANGED <<AUDIO_CACHE_SIZE, _audio_cache, tmpFiles, nextTmp, inserted,
                       unlinkFailed, popped, outsideCache>>

\* while len(_audio_cache) >= AUDIO_CACHE_SIZE ...
ThreadWhile(t) ==
    /\ At(t, "while")
    /\ IF Len(_audio_cache) >= AUDIO_CACHE_SIZE
       THEN Goto(t, "and", 0)
       ELSE Goto(t, "mkstemp", 0)
    /\ UNCHANGED <<AUDIO_CACHE_SIZE, _audio_cache, tmpFiles, nextTmp, inserted, unlinkFailed,
                   lastGen, popped, outsideCache>>

\* ... and _audio_cache: the second operand, read after the first
ThreadAnd(t) ==
    /\ At(t, "and")
    /\ IF _audio_cache # <<>>
       THEN Goto(t, "pop", 0)
       ELSE Goto(t, "mkstemp", 0)
    /\ UNCHANGED <<AUDIO_CACHE_SIZE, _audio_cache, tmpFiles, nextTmp, inserted, unlinkFailed,
                   lastGen, popped, outsideCache>>

\* path = _audio_cache.pop(0); IndexError on a list emptied meanwhile ends the call
ThreadPop(t) ==
    /\ At(t, "pop")
    /\ IF _audio_cache = <<>>
       THEN /\ Goto(t, "idle", 0)
            /\ lastGen' = GenResult("IndexError", 0)
            /\ UNCHANGED <<_audio_cache, popped>>
       ELSE /\ Goto(t, "unlink", Head(_audio_cache))
            /\ _audio_cache' = Tail(_audio_cache)
            /\ popped' = Append(popped, Head(_audio_cache))
            /\ UNCHANGED lastGen
    /\ UNCHANGED <<AUDIO_CACHE_SIZE, tmpFiles, nextTmp, inserted, unlinkFailed, outsideCache>>

\* Path(path).unlink(), OSError swallowed
ThreadUnlink(t) ==
    \E unlinkOk \in BOOLEAN :
        /\ At(t, "unlink")
        /\ tmpFiles' = IF unlinkOk THEN tmpFiles \ {threads[t].path} ELSE tmpFiles
        /\ unlinkFailed' = (unlinkFailed \/ ~unlinkOk)
        /\ Goto(t, "while", 0)
        /\ UNCHANGED <<AUDIO_CACHE_SIZE, _audio_cache, nextTmp, inserted, lastGen, popped,
                       outsideCache>>

\* fd, path = tempfile.mkstemp(suffix=".wav"): a new, empty file
ThreadMkstemp(t) ==
    /\ At(t, "mkstemp")
    /\ tmpFiles' = tmpFiles \cup {nextTmp}
    /\ nextTmp' = nextTmp + 1
    /\ Goto(t, "write", nextTmp)
    /\ UNCHANGED <<AUDIO_CACHE_SIZE, _audio_cache, inserted, unlinkFailed, lastGen, popped,
                   outsideCache>>

\* sf.write(path, ...); when it raises the file is unlinked and RuntimeError raised
ThreadWrite(t) ==
    \E write \in {"ok", "raise"}, unlinkOk \in BOOLEAN :
        /\ At(t, "write")
        /\ IF write = "ok"
           THEN /\ Goto(t, "append", threads[t].path)
                /\ UNCHANGED <<tmpFiles, unlinkFailed, lastGen>>
           ELSE /\ Goto(t, "idle", 0)
                /\ tmpFiles' = IF unlinkOk THEN tmpFiles \ {threads[t].path} ELSE tmpFiles
                /\ unlinkFailed' = (unlinkFailed \/ ~unlinkOk)
                /\ lastGen' = GenResult("Could not save audio", 0)
        /\ UNCHANGED <<AUDIO_CACHE_SIZE, _audio_cache, nextTmp, inserted, popped, outsideCache>>

\* _audio_cache.append(path); return path
ThreadAppend(t) ==
    /\ At(t, "append")
    /\ _audio_cache' = Append(_audio_cache, threads[t].path)
    /\ inserted' = Append(inserted, threads[t].path)
    /\ lastGen' = GenResult("ok", threads[t].path)
    /\ Goto(t, "idle", 0)
    /\ UNCHANGED <<AUDIO_CACHE_SIZE, tmpFiles, nextTmp, unlinkFailed, popped, outsideCache>>

ThreadNext ==
    \E t \in Threads :
        \/ ThreadGenerate(t) \/ ThreadWhile(t) \/ ThreadAnd(t) \/ ThreadPop(t) \/ ThreadUnlink(t)
        \/ ThreadMkstemp(t) \/ ThreadWrite(t) \/ ThreadAppend(t)

(***************************************************************************)
(* Specifications                                                          *)
(***************************************************************************)
StoreIdle ==
    /\ store = [p \in Pairings |-> EmptyStore]
    /\ now = 0 /\ last = NoCall /\ seeded = FALSE /\ faulted = FALSE /\ writes = 0

JobIdle ==
    /\ useQueue = FALSE /\ tasks = <<>> /\ backend = <<>> /\ wavs = {}
    /\ nextUuid = 1 /\ lastJob = NoRequest

CacheIdle ==
    /\ AUDIO_CACHE_SIZE = 0 /\ _audio_cache = <<>> /\ tmpFiles = {} /\ nextTmp = 1
    /\ inserted = <<>> /\ unlinkFailed = FALSE /\ lastGen = GenResult("none", 0)
    /\ threads = [t \in Threads |-> Idle] /\ popped = <<>>

ProcIdle == procs = [i \in Procs |-> NoProc]

SplitIdle ==
    /\ splitText = <<>> /\ splitMode = "sentence" /\ splitMax = 500 /\ splitChunks = <<>>
    /\ returned = FALSE

CloneIdle == clones = 0 /\ lastClone = NoClone

NarrateIdle ==
    /\ req = [text |-> <<>>, chunk_by |-> "sentence", max_chars |-> 500, voice_id |-> NoVoice]
    /\ syncRes = NoOutcome /\ asyncRes = NoOutcome /\ narrMsg = <<>> /\ workerRes = NoOutcome

Init == StoreInit /\ JobIdle /\ CacheIdle /\ SplitIdle /\ CloneIdle /\ NarrateIdle /\ ProcIdle

Next == StoreNext

\* the voice store
Spec == Init /\ [][Next]_vars

JobSpecInit == JobInit /\ StoreIdle /\ CacheIdle /\ SplitIdle /\ CloneIdle /\ NarrateIdle /\ ProcIdle

\* the job orchestrator
JobSpec == JobSpecInit /\ [][JobNext]_vars

CacheSpecInit == CacheInit /\ StoreIdle /\ JobIdle /\ SplitIdle /\ CloneIdle /\ NarrateIdle /\ ProcIdle

\* the audio artifact cache
CacheSpec == CacheSpecInit /\ [][CacheNext]_vars

SplitSpecInit == SplitInit /\ StoreIdle /\ JobIdle /\ CacheIdle /\ CloneIdle /\ NarrateIdle /\ ProcIdle

\* the narration chunker
SplitSpec == SplitSpecInit /\ [][SplitNext]_vars

CloneSpecInit == StoreInit /\ CloneInit /\ JobIdle /\ CacheIdle /\ SplitIdle /\ NarrateIdle /\ ProcIdle

\* the clone pipeline over the voice store
CloneSpec == CloneSpecInit /\ [][CloneNext]_vars

\* the threads of one process calling generate_to_file
ThreadSpecInit ==
    CacheInit /\ StoreIdle /\ JobIdle /\ SplitIdle /\ CloneIdle /\ NarrateIdle /\ ProcIdle

ThreadSpec == ThreadSpecInit /\ [][ThreadNext]_vars

\* processes of one deployment inside voice_store calls at the same time
ProcSpecInit ==
    StoreInit /\ ProcIdle /\ JobIdle /\ CacheIdle /\ SplitIdle /\ CloneIdle /\ NarrateIdle

ProcSpec == ProcSpecInit /\ [][ProcNext]_vars

CloneJobSpecInit == CloneJobInit /\ CacheIdle /\ SplitIdle /\ CloneIdle /\ NarrateIdle /\ ProcIdle

\* clone jobs from the request to the status query, and the narration enqueue
CloneJobSpec == CloneJobSpecInit /\ [][CloneJobNext]_vars

\* the queue is configured or not; the job tables are not used
NarrateSpecInit ==
    /\ NarrateInit /\ StoreIdle /\ CacheIdle /\ SplitIdle /\ CloneIdle /\ ProcIdle
    /\ useQueue \in BOOLEAN /\ tasks = <<>> /\ backend = <<>> /\ wavs = {}
    /\ nextUuid = 1 /\ lastJob = NoRequest

\* one narration request, on its synchronous and on its asynchronous path
NarrateSpec == NarrateSpecInit /\ [][NarrateNext]_vars

(***************************************************************************)
(* Voice store: properties                                                 *)
(***************************************************************************)
\* the owner_id the persisted record of voice_id carries: the row's owner_id in
\* the relational pairings, none in the flat-file layout, which has no such field
RecordOwner(p, s, voice_id) ==
    IF use_db(p) /\ voice_id \in DOMAIN s.db THEN s.db[voice_id].owner_id ELSE NoOwner

ReadStep(op) == last' # last /\ last'.op = op
WriteStep(op) == writes' = writes + 1 /\ last'.op = op

C3_SaveRoundTrip ==
    (last.op = "save" /\ last.fault = "none")
    => \A p \in Pairings :
          /\ last.res[p] = "ok"
          /\ load_embedding_path(p, store[p], last.voice_id) = <<EmbToSave(last.emb[1])>>
          /\ get_metadata(p, store[p], last.voice_id, NoOwner) # <<>>
          /\ get_metadata(p, store[p], last.voice_id, NoOwner)[1].name = StripOrEmpty(last.name)

\* C4: after a delete that was not refused for its owner and whose unlink /
\* delete_object calls did not fail, get of that voice_id is NotFound for every
\* caller, in every pairing.
C4_DeleteThenGet ==
    \A p \in Pairings :
        (/\ last.op = "delete" /\ last.fault = "none"
         /\ (last.owner_id = NoOwner \/ last.res[p] = TRUE))
        => \A o \in OwnerIds \cup {NoOwner} :
              get_metadata(p, store[p], last.voice_id, o) = <<>>

C4_Witness ==
    /\ last.op = "delete" /\ last.fault = "none" /\ last.owner_id = NoOwner
    /\ seeded /\ writes = 1 /\ last.voice_id = "v1"
    /\ \A p \in Pairings : last.res[p] = TRUE
    /\ \A p \in Pairings : get_metadata(p, store[p], "v1", NoOwner) = <<>>

\* C5: in every reachable state and every pairing, a voice_id that has a
\* metadata record also has a blob.
C5_MetadataHasBlob ==
    \A p \in Pairings : \A v \in VoiceIds :
        get_metadata(p, store[p], v, NoOwner) # <<>>
        => load_embedding_path(p, store[p], v) # <<>>

\* C9: from empty stores and with no I/O failure, every call returns the same
\* value under each of the four pairings.
C9_SameResults ==
    (~seeded /\ ~faulted) => \A p, q \in Pairings : last.res[p] = last.res[q]

ListedIds(res) == {res[i].voice_id : i \in 1..Len(res)}

\* C10: with no I/O failure, list(owner) holds exactly the voices for which
\* get(voice_id, owner) succeeds, in every pairing; a record with a null owner_id
\* is among them.
C10_ListMatchesGet ==
    (last.op = "list" /\ last.owner_id \in OwnerIds /\ ~faulted)
    => \A p \in Pairings :
          ListedIds(last.res[p]) =
              {v \in VoiceIds : get_metadata(p, store[p], v, last.owner_id) # <<>>}

(***************************************************************************)
(* Job orchestrator: properties                                            *)
(***************************************************************************)
Terminal == {"completed", "failed"}

\* the job_ids that POST /tts/narrate has returned to a caller
ReturnedJobIds == {tasks[t].job_id : t \in DOMAIN tasks}

\* C1: once the worker has ended the task of a narration job and its outcome is
\* still stored, the status of the job_id that enqueueing returned is completed
\* or failed.
C1_OutcomeUnderJobId ==
    \A t \in DOMAIN tasks :
        (tasks[t].phase = "done" /\ t \in DOMAIN backend)
            => job_status(tasks[t].job_id).status \in Terminal

\* C6: a result request yields the artifact only for a job whose status is
\* completed; for a pending, failed or never enqueued job it yields not-found.
C6_ResultOnlyWhenCompleted ==
    lastJob.op = "result" =>
        /\ lastJob.res.code \in {200, 404}
        /\ lastJob.res.code = 200 => job_status(lastJob.id).status = "completed"
        /\ job_status(lastJob.id).status # "completed" => lastJob.res.code = 404

\* a result request for a returned job_id whose result file exists is refused,
\* the status of that job_id being pending
C6_Witness ==
    /\ lastJob.op = "result"
    /\ lastJob.id \in ReturnedJobIds
    /\ lastJob.id \in wavs
    /\ job_status(lastJob.id).status = "pending"
    /\ lastJob.res.code = 404

\* C7: a status that is completed or failed is the same after every step.
C7_TerminalStable ==
    [][\A id \in Uuids :
          job_status(id).status \in Terminal => job_status(id)' = job_status(id)]_vars

\* C8: every status a job-status request returns is pending, completed or failed.
C8_StatusVocabulary ==
    /\ \A id \in Uuids : useQueue => job_status(id).status \in {"pending"} \cup Terminal
    /\ (lastJob.op = "status" /\ lastJob.res.code = 200)
          => lastJob.res.status \in {"pending"} \cup Terminal

\* status requests have met a queued job, a running job and a stored failure
C8_Witness ==
    /\ lastJob.op = "status"
    /\ lastJob.res.status = "failed"
    /\ \E t \in DOMAIN backend : backend[t].state = "FAILURE"
    /\ \E t \in DOMAIN tasks : tasks[t].phase = "running"

(***************************************************************************)
(* Audio artifact cache: properties                                        *)
(***************************************************************************)
Range(seq) == {seq[i] : i \in 1..Len(seq)}

\* the last n elements of seq
LastN(seq, n) == SubSeq(seq, Len(seq) - n + 1, Len(seq))

\* C11: with a capacity C >= 1, after the n-th insertion the tracked entries are
\* the last min(n, C) inserted paths in insertion order; at every moment they
\* are the most recent inserted paths, in that order; and as long as no unlink
\* has failed the resident files are exactly the tracked ones.
C11_FifoWindow ==
    AUDIO_CACHE_SIZE >= 1 =>
        /\ Len(_audio_cache) <= AUDIO_CACHE_SIZE
        /\ _audio_cache = LastN(inserted, Len(_audio_cache))
        /\ lastGen.res = "ok"
              => _audio_cache = LastN(inserted, Min(Len(inserted), AUDIO_CACHE_SIZE))
        /\ ~unlinkFailed => tmpFiles = Range(_audio_cache)

\* capacity + 1 insertions: capacity files are resident, the first is gone
C11_Witness ==
    /\ AUDIO_CACHE_SIZE >= 2
    /\ lastGen.res = "ok"
    /\ Len(inserted) = AUDIO_CACHE_SIZE + 1
    /\ Cardinality(tmpFiles) = AUDIO_CACHE_SIZE
    /\ inserted[1] \notin tmpFiles

\* a generate_to_file call on a full cache whose os.unlink of the oldest file raised
EvictionUnlinkFailed ==
    /\ AUDIO_CACHE_SIZE >= 1
    /\ Len(_audio_cache) >= AUDIO_CACHE_SIZE
    /\ nextTmp' # nextTmp
    /\ Head(_audio_cache) \in tmpFiles'

\* C33: when the unlink of the evicted file raises, the oldest entry is removed
\* from the tracked list all the same, the call fails only if sf.write itself
\* failed, on success the new path is the newest tracked entry, and the tracked
\* entries stay within the capacity (capacity >= 1).
C33_EvictionSurvivesUnlinkFailure ==
    [][EvictionUnlinkFailed =>
          /\ Head(_audio_cache) \notin Range(_audio_cache')
          /\ Len(_audio_cache') <= AUDIO_CACHE_SIZE
          /\ lastGen'.res \in {"ok", "Could not save audio"}
          /\ lastGen'.res = "ok" =>
                /\ lastGen'.path \notin Range(_audio_cache)
                /\ _audio_cache' = Append(Tail(_audio_cache), lastGen'.path)]_vars

\* an insertion succeeded on a full cache although the evicted file is still there
C33_Witness ==
    /\ AUDIO_CACHE_SIZE >= 1
    /\ unlinkFailed
    /\ lastGen.res = "ok"
    /\ Len(_audio_cache) = AUDIO_CACHE_SIZE
    /\ _audio_cache[Len(_audio_cache)] = lastGen.path
    /\ inserted[1] \in tmpFiles
    /\ inserted[1] \notin Range(_audio_cache)

(***************************************************************************)
(* The audio artifact cache statement by statement: properties             *)
(***************************************************************************)
NoDuplicates(seq) == Cardinality(Range(seq)) = Len(seq)

\* a thread leaves the eviction loop of its generate_to_file call
LeavesLoop(t) == threads[t].pc \in {"while", "and"} /\ threads'[t].pc = "mkstemp"

\* the calls evict the oldest entries, and add theirs after having seen room
EvictsBeforeAdding ==
    /\ \A t \in Threads : LeavesLoop(t) => Len(_audio_cache) < AUDIO_CACHE_SIZE
    /\ Len(_audio_cache') < Len(_audio_cache) => _audio_cache' = Tail(_audio_cache)

\* C32: with a capacity >= 1 a call of generate_to_file goes on to add its path
\* only once the oldest entries are evicted and the list is below the capacity,
\* and a tracking entry is removed only after its file has been deleted.
C32_FileFirstEntrySecond ==
    [][AUDIO_CACHE_SIZE >= 1 =>
          /\ EvictsBeforeAdding
          /\ \A x \in Range(_audio_cache) \ Range(_audio_cache') : x \notin tmpFiles]_vars

\* C38: with a capacity >= 1 and threads interleaved in any way, the tracked
\* list is never longer than the capacity, holds no path twice, and no path is
\* popped twice.
C38_ThreadSafeCache ==
    AUDIO_CACHE_SIZE >= 1 =>
        /\ Len(_audio_cache) <= AUDIO_CACHE_SIZE
        /\ NoDuplicates(_audio_cache)
        /\ NoDuplicates(popped)

(***************************************************************************)
(* Narration chunker: properties                                           *)
(***************************************************************************)
RECURSIVE Concat(_)
Concat(seqs) == IF seqs = <<>> THEN <<>> ELSE Head(seqs) \o Concat(Tail(seqs))

IsLetter(c) == c \notin Whitespace

\* a text with its whitespace taken out
Squash(s) == SelectSeq(s, IsLetter)

IsPrefix(s, t) == Len(s) <= Len(t) /\ s = SubSeq(t, 1, Len(s))

\* max_chars clamped to [50, 1500]
Clamped(n) == Max(50, Min(n, 1500))

SentenceBranch == splitMode \notin {"paragraph", "fixed"}

\* C12: whatever the text, the mode and max_chars, split returns at most
\* MAX_CHUNKS chunks and none of them is empty.
C12_ChunkCountAndNonEmpty ==
    returned =>
        /\ Len(splitChunks) <= MAX_CHUNKS
        /\ \A i \in 1..Len(splitChunks) : splitChunks[i] # <<>>

\* a text of 17 sentences and one of 1001 words, cut off at MAX_CHUNKS chunks
C12_Witness ==
    /\ returned
    /\ Len(splitChunks) = MAX_CHUNKS
    /\ \/ SentenceBranch /\ splitMax = 10 /\ Len(splitText) = 68
       \/ splitMode = "fixed" /\ Len(splitText) > MAX_TOTAL_CHARS

\* C13: in every mode the chunks, joined in order and whitespace apart, are a
\* prefix of the text.
C13_ChunksArePrefix ==
    returned => IsPrefix(Squash(Concat(splitChunks)), Squash(splitText))

\* C14: the chunks together hold at most MAX_TOTAL_CHARS characters, in
\* particular for a text longer than that.
C14_TotalWithinLimit ==
    returned => Len(Concat(splitChunks)) <= MAX_TOTAL_CHARS

\* a text of more than MAX_TOTAL_CHARS characters whose chunks hold exactly
\* MAX_TOTAL_CHARS of them
C14_Witness ==
    /\ returned
    /\ Len(strip(splitText)) > MAX_TOTAL_CHARS
    /\ Len(Concat(splitChunks)) = MAX_TOTAL_CHARS

\* C15: in the sentence branch and in fixed mode no chunk is longer than
\* max_chars clamped to [50, 1500].
C15_ChunkWithinClampedMax ==
    (returned /\ splitMode # "paragraph")
        => \A i \in 1..Len(splitChunks) : Len(splitChunks[i]) <= Clamped(splitMax)

(***************************************************************************)
(* Clone pipeline: properties                                              *)
(***************************************************************************)
InvalidAudio == {"Could not load audio", "Audio too short", "Audio too long"}

\* C16: for a sample that loads, validation succeeds (the engine is called)
\* exactly when MIN <= duration <= MAX; a shorter sample is refused as too short
\* and a longer one as too long.
C16_DurationBounds ==
    (lastClone.op = "clone" /\ lastClone.load = "ok") =>
        \A p \in Pairings :
            /\ lastClone.calls[p] = 1
                  <=> (/\ CLONE_MIN_DURATION_SEC <= lastClone.duration
                       /\ lastClone.duration <= CLONE_MAX_DURATION_SEC)
            /\ lastClone.res[p] \in InvalidAudio <=> lastClone.calls[p] = 0
            /\ lastClone.duration < CLONE_MIN_DURATION_SEC => lastClone.res[p] = "Audio too short"
            /\ lastClone.duration > CLONE_MAX_DURATION_SEC => lastClone.res[p] = "Audio too long"

\* a sample of exactly MAX seconds is accepted and its voice is stored
C16_Witness ==
    /\ lastClone.op = "clone" /\ lastClone.load = "ok"
    /\ lastClone.duration = CLONE_MAX_DURATION_SEC
    /\ lastClone.res[LocalFile] = lastClone.voice_id
    /\ load_embedding_path(LocalFile, store[LocalFile], lastClone.voice_id) # <<>>

\* C17: a clone that raises, whatever the error, leaves the store of its
\* pairing as it was, and makes at most one engine call, none when validation
\* fails.
C17_FailedCloneLeavesStore ==
    [][\A p \in Pairings :
          (clones' = clones + 1 /\ lastClone'.res[p] # lastClone'.voice_id)
          => /\ store'[p] = store[p]
             /\ lastClone'.calls[p] <= 1
             /\ lastClone'.res[p] \in InvalidAudio => lastClone'.calls[p] = 0]_vars

(***************************************************************************)
(* Narration request: properties                                           *)
(***************************************************************************)
\* the request passes the checks on its text
ValidText == tts_narrate_validation(req).detail = "ok"

\* C18: on the asynchronous path a request that names no voice is answered
\* with a 400, "Narrate requires a voice_id." when its text is valid; no
\* message is put on the queue and the response carries no job_id.
C18_AsyncNeedsVoice ==
    (asyncRes.done /\ req.voice_id = NoVoice) =>
        /\ asyncRes.code = 400
        /\ ValidText => asyncRes.detail = "Narrate requires a voice_id."
        /\ asyncRes.detail # "job_id"
        /\ narrMsg = <<>>

C18_Witness ==
    /\ asyncRes.done
    /\ req.voice_id = NoVoice
    /\ asyncRes.detail = "Narrate requires a voice_id."
    /\ narrMsg = <<>>

\* C19: on the synchronous path a request with a valid text whose voice is
\* neither a preset nor a stored blob is answered with 404 "Voice not found",
\* and tts_generate was called for no chunk.
C19_NotFoundBeforeSynthesis ==
    (syncRes.done /\ ValidText /\ req.voice_id # NoVoice
       /\ ~_is_preset_voice(req.voice_id) /\ ~syncRes.found) =>
        /\ syncRes.code = 404
        /\ syncRes.detail = "Voice not found"
        /\ syncRes.calls = <<>>

C19_Witness ==
    /\ syncRes.done
    /\ req.voice_id = "v1"
    /\ ~syncRes.found
    /\ Len(syncRes.chunks) > 1
    /\ syncRes.code = 404
    /\ syncRes.calls = <<>>

\* the outcomes that refuse a text for its length or for its chunks
LengthRejections ==
    {"No text", "Text exceeds", "No chunks produced from text",
     "Invalid or too long text", "No chunks produced"}

RejectedOnLength(r) == r.done /\ r.detail \in LengthRejections

\* the request as narrate_task would receive it unchecked
AsMessage(body) ==
    [text |-> body.text, chunk_by |-> body.chunk_by, max_chars |-> body.max_chars,
     voice_id |-> body.voice_id]

\* C20: the checks of tts_narrate and of narrate_task on the text accept the
\* same requests and go on with the same chunks; the two paths refuse the same
\* requests, the worker refuses no text the handler queued, and whichever
\* refuses has called tts_generate for no chunk.
C20_SameValidation ==
    /\ ValidText <=> narrate_task_validation(AsMessage(req)).error = "ok"
    /\ ValidText =>
          narrate_task_validation(AsMessage(req)).chunks = tts_narrate_validation(req).chunks
    /\ (syncRes.done /\ asyncRes.done) =>
          (RejectedOnLength(syncRes) <=> RejectedOnLength(asyncRes))
    /\ workerRes.done =>
          /\ ~RejectedOnLength(workerRes)
          /\ workerRes.chunks = asyncRes.chunks
    /\ \A r \in {syncRes, asyncRes, workerRes} : RejectedOnLength(r) => r.calls = <<>>

C20_Witness ==
    /\ syncRes.done /\ asyncRes.done
    /\ Len(strip(req.text)) = MAX_TOTAL_CHARS + 1
    /\ syncRes.detail = "Text exceeds" /\ syncRes.calls = <<>>
    /\ asyncRes.detail = "Text exceeds" /\ narrMsg = <<>>

\* the request reached the worker in the environment of the synchronous call:
\* the same blobs stored and the same engine
SameRun == syncRes.done /\ workerRes.done
             /\ syncRes.found = workerRes.found /\ syncRes.failAt = workerRes.failAt

\* C21: for one request run on both paths in the same environment, the job
\* ends completed exactly when the synchronous call answers 200, and then
\* both went on with the same chunks, called the engine for them in the same
\* order and produced the same samples.
C21_JobMatchesSync ==
    SameRun =>
        /\ workerRes.code = 200 <=> syncRes.code = 200
        /\ syncRes.code = 200 =>
              /\ workerRes.chunks = syncRes.chunks
              /\ workerRes.calls = syncRes.calls
              /\ workerRes.out = syncRes.out

\* the arrays of the chunks laid end to end in index order
RECURSIVE ManualConcat(_, _)
ManualConcat(chunks, i) ==
    IF i > Len(chunks) THEN <<>> ELSE StubEngine(chunks[i]) \o ManualConcat(chunks, i + 1)

InOrder(r) == r.calls = [i \in 1..Len(r.calls) |-> i]

\* C22: on either path the engine is called for the chunks in index order, and
\* the samples of a narration that succeeded are the arrays of its chunks laid
\* end to end in index order.
C22_ChunkOrder ==
    \A r \in {syncRes, workerRes} :
        /\ InOrder(r)
        /\ (r.done /\ r.code = 200) =>
              /\ Len(r.calls) = Len(r.chunks)
              /\ r.out = ManualConcat(r.chunks, 1)

C22_Witness ==
    /\ syncRes.code = 200 /\ workerRes.code = 200
    /\ Len(syncRes.chunks) > 1
    /\ syncRes.chunks[1] # syncRes.chunks[2]
    /\ syncRes.out = ManualConcat(syncRes.chunks, 1)
    /\ workerRes.out = ManualConcat(workerRes.chunks, 1)

(***************************************************************************)
(* Clone jobs: properties                                                  *)
(***************************************************************************)
\* C23: an asynchronous clone or narration request made while the broker is
\* unreachable is answered with 503 "Queue unavailable" and no job_id, and no
\* request is answered so for another reason.
C23_QueueUnavailable ==
    /\ (lastJob.op = "clone" /\ lastJob.res.code # 400 /\ ~lastJob.brokerUp) =>
          /\ lastJob.res.code = 503
          /\ lastJob.res.detail = "Queue unavailable"
          /\ lastJob.id = 0
    /\ (lastJob.op = "narrate" /\ lastJob.res.detail = "OperationalError") =>
          /\ lastJob.res.code = 503
          /\ lastJob.id = 0
    /\ (lastJob.op = "clone" /\ lastJob.res.code = 503) => ~lastJob.brokerUp

CloningFailed(t) ==
    /\ IsCloneTask(t)
    /\ tasks[t].phase = "done"
    /\ tasks[t].ret \in InvalidAudio \cup {"Voice extraction failed"}

\* C24: for a clone task that has run and whose clone_voice call raised for
\* invalid audio or a failed extraction, job_status answers failed with the
\* message of that error.
C24_FailedCloneReported ==
    \A t \in DOMAIN tasks :
        CloningFailed(t) =>
            /\ job_status(t).status = "failed"
            /\ job_status(t).detail = tasks[t].ret

\* the request of lastJob is a clone of a valid sample made while the broker
\* is reachable
ValidCloneRequest ==
    /\ lastJob.op = "clone"
    /\ lastJob.res.code # 400
    /\ lastJob.brokerUp
    /\ clone_validation(lastJob.load, lastJob.duration) = "ok"

\* C25: a clone request with a valid sample, made while the broker is
\* reachable, is answered with a job_id; once the worker has run the task
\* without an engine failure, job_status gives completed with a voice_id, and
\* get_metadata of that voice_id gives a record with the name supplied.
C25_CloneJobEndToEnd ==
    ValidCloneRequest =>
        /\ lastJob.res.code = 200
        /\ lastJob.id \in DOMAIN tasks
        /\ (tasks[lastJob.id].phase = "done"
              /\ tasks[lastJob.id].ret # "Voice extraction failed") =>
              LET v == job_status_voice_id(lastJob.id)
                  got == get_metadata(lastJob.p, store[lastJob.p], v, lastJob.owner_id)
              IN /\ job_status(lastJob.id).status = "completed"
                 /\ v # NoVoice
                 /\ got # <<>>
                 /\ got[1].name = StripOrEmpty(lastJob.name)

(***************************************************************************)
(* Narration jobs: the result fetch                                        *)
(***************************************************************************)
\* the narration of task t ended completed and its outcome is still stored
NarrationCompleted(t) ==
    /\ tasks[t].phase = "done"
    /\ t \in DOMAIN backend
    /\ backend[t].state = "SUCCESS"
    /\ backend[t].result.status = "completed"

\* C26: for a narration job that ended completed, the result request made with
\* the job_id that enqueueing returned serves the WAV stored under that job_id,
\* whatever was fetched before.
C26_ResultFetchRepeatable ==
    \A t \in DOMAIN tasks :
        NarrationCompleted(t) =>
            /\ tasks[t].job_id \in wavs
            /\ job_result(tasks[t].job_id) = Response(200, "", "wav")

(***************************************************************************)
(* Voice store: ordering, update and consistency                           *)
(***************************************************************************)
\* C27: the sequence list returns is sorted by created_at, newest first, in
\* every pairing, whatever saves, updates and deletes came before.
C27_ListNewestFirst ==
    last.op = "list" => \A p \in Pairings : IsSortedDesc(last.res[p])

C27_Witness ==
    /\ last.op = "list"
    /\ writes > 0
    /\ \E p \in Pairings :
          /\ Len(last.res[p]) = 2
          /\ last.res[p][1].created_at > last.res[p][2].created_at
          /\ last.res[p][1].voice_id = "v2"

\* the store with every name blanked
NameBlind(s) ==
    [s EXCEPT !.meta = [v \in DOMAIN s.meta |-> [s.meta[v] EXCEPT !.name = <<>>]],
              !.index = [i \in 1..Len(s.index) |-> [s.index[i] EXCEPT !.name = <<>>]],
              !.db = [v \in DOMAIN s.db |-> [s.db[v] EXCEPT !.name = <<>>]]]

\* what the store holds for voice_id w: blob, sidecar, index entries, row
Holding(s, w) ==
    [pt |-> IF w \in DOMAIN s.pt THEN <<s.pt[w]>> ELSE <<>>,
     meta |-> IF w \in DOMAIN s.meta THEN <<s.meta[w]>> ELSE <<>>,
     index |-> {s.index[i] : i \in {j \in 1..Len(s.index) : s.index[j].voice_id = w}},
     db |-> IF w \in DOMAIN s.db THEN <<s.db[w]>> ELSE <<>>]

\* C28: an update step leaves, in every pairing, every blob and every field
\* other than name as they were, and every other voice wholly as it was.
C28_UpdateChangesNameOnly ==
    [][WriteStep("update") =>
          \A p \in Pairings :
              /\ store'[p].pt = store[p].pt
              /\ NameBlind(store'[p]) = NameBlind(store[p])
              /\ \A w \in VoiceIds \ {last'.voice_id} :
                    Holding(store'[p], w) = Holding(store[p], w)]_vars

C28_Witness ==
    /\ last.op = "update"
    /\ last.name = <<" ", "b">>
    /\ \A p \in Pairings :
          /\ last.res[p] = TRUE
          /\ get_metadata(p, store[p], last.voice_id, last.owner_id) # <<>>
          /\ get_metadata(p, store[p], last.voice_id, last.owner_id)[1].name = <<"b">>

\* the fields every stored copy of a metadata record has
Shared(r) == [name |-> r.name, created_at |-> r.created_at, consent_scope |-> r.consent_scope]

\* the stored copies of the metadata of voice_id under pairing p
Copies(p, s, voice_id) ==
    {Shared(r) : r \in
        (IF voice_id \in DOMAIN s.meta THEN {s.meta[voice_id]} ELSE {})
        \cup (IF _use_s3(p) /\ s.hasIndex THEN Holding(s, voice_id).index ELSE {})
        \cup (IF use_db(p) /\ voice_id \in DOMAIN s.db THEN {s.db[voice_id]} ELSE {})}

\* C29: when no I/O call has failed, in every pairing a voice_id has a metadata
\* record exactly when it has a blob, it has at most one index entry, and all
\* stored copies of its metadata carry the same values.
C29_MetadataAndBlobTogether ==
    ~faulted =>
        \A p \in Pairings : \A v \in VoiceIds :
            /\ get_metadata(p, store[p], v, NoOwner) # <<>>
                  <=> load_embedding_path(p, store[p], v) # <<>>
            /\ Cardinality({i \in 1..Len(store[p].index) : store[p].index[i].voice_id = v}) <= 1
            /\ Cardinality(Copies(p, store[p], v)) <= 1

\* C30: update returns true exactly for a voice that exists and that the caller
\* can get, in every pairing and whether or not a name is given.
C30_UpdateResult ==
    last.op = "update" =>
        \A p \in Pairings :
            last.res[p] = (get_metadata(p, store[p], last.voice_id, last.owner_id) # <<>>)

(***************************************************************************)
(* Voice store: delete                                                     *)
(***************************************************************************)
\* a blob, a sidecar, an index entry or a row of voice_id is stored
Existed(s, voice_id) ==
    \/ voice_id \in DOMAIN s.pt
    \/ voice_id \in DOMAIN s.meta
    \/ voice_id \in DOMAIN s.db
    \/ \E i \in 1..Len(s.index) : s.index[i].voice_id = voice_id

\* C31: in every pairing a delete step returns true only when something of
\* that voice_id was stored and the step removed some of it, and for a voice_id
\* of which nothing is stored it returns false and leaves the store as it was.
C31_DeleteResult ==
    [][WriteStep("delete") =>
          \A p \in Pairings :
              /\ last'.res[p] = TRUE =>
                    /\ Existed(store[p], last'.voice_id)
                    /\ Holding(store'[p], last'.voice_id) # Holding(store[p], last'.voice_id)
              /\ ~Existed(store[p], last'.voice_id) =>
                    /\ last'.res[p] = FALSE
                    /\ store'[p] = store[p]]_vars

\* C36: a delete by an owner, with no storage fault, of a voice_id that has a
\* blob or a sidecar and whose record names no other owner returns true and
\* leaves neither blob nor sidecar, in every pairing, row or no row.
C36_OwnerCanErase ==
    [][WriteStep("delete") /\ last'.owner_id # NoOwner /\ last'.fault = "none" =>
          \A p \in Pairings :
              /\ last'.voice_id \in DOMAIN store[p].pt \cup DOMAIN store[p].meta
              /\ RecordOwner(p, store[p], last'.voice_id) \in {NoOwner, last'.owner_id}
              => /\ last'.res[p] = TRUE
                 /\ last'.voice_id \notin DOMAIN store'[p].pt \cup DOMAIN store'[p].meta]_vars

(***************************************************************************)
(* Narration chunker: the cuts of fixed mode                               *)
(***************************************************************************)
\* the text the fixed branch starts from
FixedText == Slice(strip(splitText), MAX_TOTAL_CHARS)

\* the offsets, counted from 0, of the spaces in the first w characters of s
SpaceOffsets(s, w) == {i \in 0..(Min(w, Len(s)) - 1) : s[i + 1] = " "}

\* the cut the claim describes for window w: just after the last space when
\* that space lies past half the window, the window boundary otherwise
DescribedCut(s, w) ==
    LET S == SpaceOffsets(s, w)
    IN IF S # {} /\ 2 * MaxOf(S) > w THEN MaxOf(S) + 1 ELSE w

\* C37: in fixed mode, with w the clamped max_chars, every pass of the loop on
\* a remaining text longer than w cuts more than w/2 and at most w characters,
\* just after the last space of the window when that space lies past half the
\* window and at w otherwise, and the chunks are those cuts, stripped.
C37_FixedCuts ==
    (returned /\ splitMode = "fixed") =>
        LET w == Clamped(splitMax)
            rem == FixedRemaining(FixedText, 0, w)
        IN /\ Len(splitChunks) = Len(rem)
           /\ \A i \in 1..Len(rem) :
                 IF Len(rem[i]) <= w
                 THEN i = Len(rem) /\ splitChunks[i] = strip(rem[i])
                 ELSE LET cut == FixedCut(rem[i], w)
                      IN /\ 2 * cut > w
                         /\ cut <= w
                         /\ cut = DescribedCut(rem[i], w)
                         /\ splitChunks[i] = strip(Slice(rem[i], cut))

\* a call in fixed mode that backed off to a space in one pass and cut at the
\* window boundary, in the middle of a word, in another
C37_Witness ==
    /\ returned /\ splitMode = "fixed"
    /\ LET w == Clamped(splitMax)
           rem == FixedRemaining(FixedText, 0, w)
       IN /\ \E i \in 1..Len(rem) : Len(rem[i]) > w /\ FixedCut(rem[i], w) < w
          /\ \E i \in 1..Len(rem) :
                /\ Len(rem[i]) > w
                /\ FixedCut(rem[i], w) = w
                /\ rem[i][w] # " " /\ rem[i][w + 1] # " "

(***************************************************************************)
(* Clone jobs: the upload file                                             *)
(***************************************************************************)
\* C39: the upload file of a clone task that has ended, completed or failed,
\* does not exist, and neither does the upload file of a clone request
\* answered 503 Queue unavailable.
C39_UploadRemoved ==
    /\ \A t \in DOMAIN tasks :
          IsCloneTask(t) /\ tasks[t].phase = "done" => ~tasks[t].upload_path
    /\ (lastJob.op = "clone" /\ lastJob.res.code = 503) => ~lastJob.upload_path

(***************************************************************************)
(* Voice store: calls of several processes                                 *)
(***************************************************************************)
\* the store of pairing p the processes started against
StartStore(p) == IF seeded THEN SeededStore(p, NoOwner) ELSE EmptyStore

\* the store after the call of process i, run alone
Alone(i, p, s) ==
    LET pr == procs[i]
    IN IF pr.op = "save"
       THEN save_embedding(p, s, pr.voice_id, SeedEmbedding, "tts", pr.name, NoOwner, NoName,
                           now, now, "none").s
       ELSE IF pr.op = "update" THEN update_metadata(p, s, pr.voice_id, pr.name, NoOwner).s
       ELSE delete_voice(p, s, pr.voice_id, NoOwner, "none").s

AllReturned(p) == \A i \in Procs : procs[i].pc = "done" /\ procs[i].p = p

\* C34: when an update and a delete, or two updates, of one voice_id by two
\* processes have both returned in the flat-file pairing, the store is what
\* the two calls give in one of the two orders, and no sidecar is without blob.
C34_LastWriteWins ==
    (/\ AllReturned(LocalFile)
     /\ procs[1].voice_id = procs[2].voice_id
     /\ {procs[1].op, procs[2].op} \in {{"update", "delete"}, {"update"}})
    => LET s0 == StartStore(LocalFile)
           s == store[LocalFile]
       IN /\ s \in {Alone(2, LocalFile, Alone(1, LocalFile, s0)),
                     Alone(1, LocalFile, Alone(2, LocalFile, s0))}
          /\ DOMAIN s.meta \subseteq DOMAIN s.pt

\* C35: when save, update and delete calls of two processes on distinct
\* voice_ids have returned in the object-storage pairing, the index lists the
\* voices whose metadata key exists, and those are the voices stored at the
\* start or saved, less the deleted ones.
C35_IndexListsStoredVoices ==
    (AllReturned(S3File) /\ procs[1].voice_id # procs[2].voice_id)
    => LET s == store[S3File]
           listed == {e.voice_id : e \in UNION {Range(l) : l \in _s3_list_voices(s)}}
           saved == {procs[i].voice_id : i \in {j \in Procs : procs[j].op = "save"}}
           deleted == {procs[i].voice_id : i \in {j \in Procs : procs[j].op = "delete"}}
       IN /\ listed = DOMAIN s.meta
          /\ listed = (DOMAIN StartStore(S3File).meta \cup saved) \ deleted

====
